---------------------------- MODULE Spec2Model ----------------------------
(***************************************************************************)
(* A model of grunnverk/git-tools: the branch sync engine                  *)
(* (safeSyncBranchWithRemote, isBranchInSyncWithRemote), the tag resolver  *)
(* (findPreviousReleaseTag) and the reference resolver (getDefaultFromRef) *)
(* of git.ts, on top of the command runner runSecure of child.ts.          *)
(*                                                                         *)
(* Text is modelled by TLA+ strings, character by character (Len, SubSeq   *)
(* and \o on strings), so that validation, message building and substring  *)
(* tests are computed the way the TypeScript computes them.                *)
(*                                                                         *)
(* One call runs at a time.  Every action is one awaited git command       *)
(* together with the synchronous code that follows it up to the next       *)
(* await; the outcome of the command is chosen by the environment.         *)
(***************************************************************************)
EXTENDS Integers, Sequences, FiniteSets, TLC

VARIABLES
    op,             \* the running operation: "none", "sync", "insync", "tag", "ref", "status"
    pc,             \* position of the call: the next command to await, or "done"
    branchName,     \* argument branchName
    remote,         \* argument remote
    originalBranch, \* local originalBranch of safeSyncBranchWithRemote
    localExists,    \* local localExists
    remoteExists,   \* local remoteExists
    needToSwitch,   \* local needToSwitch
    pullError,      \* message of the error caught by catch (pullError)
    localSha,       \* local localSha of isBranchInSyncWithRemote
    result,         \* the value the call returned (NoResult while it runs)
    raised,         \* TRUE when the call raised instead of returning
    cmds,           \* the subprocesses spawned by the call, in order
    warned,         \* logger.warn calls of the sync engine
    checkedOut,     \* repository: the checked-out branch, "" on a detached HEAD
    localBranches,  \* repository: the local branches
    trackingRefs,   \* repository: remote-tracking refs, as <<remote, branch>>
    dirty,          \* repository: the working tree has changes
    shaLocal,       \* repository: commit of the target local branch
    shaRemote,      \* repository: commit of the target remote-tracking ref
    currentVersion, \* argument currentVersion of findPreviousReleaseTag
    tagPattern,     \* argument tagPattern
    tags,           \* local tags: the listed tags, in the order they are scanned
    repoTags,       \* repository: the set of tag names
    forceMainBranch, \* argument forceMainBranch of getDefaultFromRef
    currentBranch,  \* argument currentBranch, "" when it is not given
    foundTag,       \* local previousTag of getDefaultFromRef
    candidate,      \* position of the for loop in candidates
    headPackage,    \* repository: the text of package.json in HEAD
    workPackage,    \* working directory: the text of package.json
    fileReads,      \* the outcomes of the fs.readFile calls made by the call, in order
    workingDir,     \* argument workingDir of getGitStatusSummary, "" when not given
    cwd,            \* process: the current working directory
    summary,        \* locals branch, unstagedCount, uncommittedCount of getGitStatusSummary
    porcelain,      \* repository: what git status --porcelain prints
    ahead,          \* repository: what git rev-list --count origin/<branch>..HEAD prints
    summaries,      \* the locals of each of two concurrent getGitStatusSummary calls
    syncs           \* the locals of each of two concurrent safeSyncBranchWithRemote calls

vars == <<op, pc, branchName, remote, originalBranch, localExists, remoteExists,
          needToSwitch, pullError, localSha, result, raised, cmds, warned,
          checkedOut, localBranches, trackingRefs, dirty, shaLocal, shaRemote,
          currentVersion, tagPattern, tags, repoTags,
          forceMainBranch, currentBranch, foundTag, candidate, headPackage, workPackage,
          fileReads, workingDir, cwd, summary, porcelain, ahead, summaries, syncs>>

callVars == <<branchName, remote, originalBranch, localExists, remoteExists,
              needToSwitch, pullError, localSha>>
repoVars == <<checkedOut, localBranches, trackingRefs, dirty, shaLocal, shaRemote>>
tagVars == <<currentVersion, tagPattern, tags, repoTags>>
refVars == <<forceMainBranch, currentBranch, foundTag, candidate, headPackage, workPackage,
             fileReads>>
\* What only the concurrent calls write.
concurrentVars == <<summaries, syncs>>
statusVars == <<workingDir, cwd, summary, porcelain, ahead, concurrentVars>>
\* What no action of the branch sync engine writes.
syncRest == <<raised, tagVars, refVars, statusVars>>

-----------------------------------------------------------------------------
(* Strings *)

\* String.prototype.charAt, positions counted from 1: "" out of range
CharAt(s, i) == IF 1 <= i /\ i <= Len(s) THEN SubSeq(s, i, i) ELSE ""

\* String.prototype.includes
Includes(s, needle) ==
    \E i \in 1..(Len(s) - Len(needle) + 1) : SubSeq(s, i, i + Len(needle) - 1) = needle

\* String.prototype.startsWith
StartsWith(s, prefix) ==
    /\ Len(prefix) <= Len(s)
    /\ SubSeq(s, 1, Len(prefix)) = prefix

Digits == {"0", "1", "2", "3", "4", "5", "6", "7", "8", "9"}
Lower == {"a", "b", "c", "d", "e", "f", "g", "h", "i", "j", "k", "l", "m",
          "n", "o", "p", "q", "r", "s", "t", "u", "v", "w", "x", "y", "z"}
Upper == {"A", "B", "C", "D", "E", "F", "G", "H", "I", "J", "K", "L", "M",
          "N", "O", "P", "Q", "R", "S", "T", "U", "V", "W", "X", "Y", "Z"}
WhiteSpace == {" ", "\t", "\n", "\r"}

\* String.prototype.trim
RECURSIVE TrimStart(_)
TrimStart(s) ==
    IF Len(s) > 0 /\ CharAt(s, 1) \in WhiteSpace
    THEN TrimStart(SubSeq(s, 2, Len(s)))
    ELSE s

RECURSIVE TrimEnd(_)
TrimEnd(s) ==
    IF Len(s) > 0 /\ CharAt(s, Len(s)) \in WhiteSpace
    THEN TrimEnd(SubSeq(s, 1, Len(s) - 1))
    ELSE s

Trim(s) == TrimEnd(TrimStart(s))

\* Array.prototype.join(sep)
RECURSIVE Join(_, _)
Join(parts, sep) ==
    IF Len(parts) = 0 THEN ""
    ELSE IF Len(parts) = 1 THEN parts[1]
    ELSE parts[1] \o sep \o Join(Tail(parts), sep)

\* The first position of character c in s, 0 when there is none.
RECURSIVE IndexFrom(_, _, _)
IndexFrom(s, c, i) ==
    IF i > Len(s) THEN 0
    ELSE IF CharAt(s, i) = c THEN i
    ELSE IndexFrom(s, c, i + 1)

IndexOf(s, c) == IndexFrom(s, c, 1)

\* String.prototype.split(c) for a one-character separator
RECURSIVE Split(_, _)
Split(s, c) ==
    LET at == IndexOf(s, c)
    IN  IF at = 0 THEN <<s>>
        ELSE <<SubSeq(s, 1, at - 1)>> \o Split(SubSeq(s, at + 1, Len(s)), c)

\* Array.prototype.filter(x => x.length > 0)
RECURSIVE NonEmpty(_)
NonEmpty(parts) ==
    IF Len(parts) = 0 THEN <<>>
    ELSE IF Len(parts[1]) > 0 THEN <<parts[1]>> \o NonEmpty(Tail(parts))
    ELSE NonEmpty(Tail(parts))

AllIn(s, chars) == \A i \in 1..Len(s) : CharAt(s, i) \in chars

\* The characters of the model's strings in code-unit order, and the order
\* JavaScript's < and git's refname sort give strings made of them.
CodeOrder == "+-./0123456789ABCDEFGHIJKLMNOPQRSTUVWXYZ_abcdefghijklmnopqrstuvwxyz"
Code(c) == CHOOSE i \in 1..Len(CodeOrder) : CharAt(CodeOrder, i) = c

RECURSIVE StringLess(_, _)
StringLess(a, b) ==
    IF Len(b) = 0 THEN FALSE
    ELSE IF Len(a) = 0 THEN TRUE
    ELSE IF CharAt(a, 1) # CharAt(b, 1) THEN Code(CharAt(a, 1)) < Code(CharAt(b, 1))
    ELSE StringLess(SubSeq(a, 2, Len(a)), SubSeq(b, 2, Len(b)))

\* Number(s) for a string of decimal digits
DigitValue(c) == Code(c) - Code("0")

RECURSIVE ToNumber(_)
ToNumber(s) ==
    IF Len(s) = 0 THEN 0
    ELSE 10 * ToNumber(SubSeq(s, 1, Len(s) - 1)) + DigitValue(CharAt(s, Len(s)))

-----------------------------------------------------------------------------
(* validation.ts, and the package.json texts it is given *)

\* The text of a package.json with the given name and version; a member is
\* left out when its value is "".
Member(key, value) == IF value = "" THEN <<>> ELSE <<"\"" \o key \o "\":\"" \o value \o "\"">>
PackageText(name, version) ==
    "{" \o Join(Member("name", name) \o Member("version", version), ",") \o "}"

IsQuoted(s) == Len(s) >= 2 /\ CharAt(s, 1) = "\"" /\ CharAt(s, Len(s)) = "\""
Unquoted(s) == SubSeq(s, 2, Len(s) - 1)

\* JSON.parse of one "key":"value" member
JsonMember(parts) ==
    IF Len(parts) = 2 /\ IsQuoted(parts[1]) /\ IsQuoted(parts[2])
    THEN [valid |-> TRUE, key |-> Unquoted(parts[1]), value |-> Unquoted(parts[2])]
    ELSE [valid |-> FALSE]

JsonMembers(texts) == [i \in 1..Len(texts) |-> JsonMember(Split(texts[i], ":"))]

JsonObjectOf(members) ==
    IF \A i \in 1..Len(members) : members[i].valid
    THEN [valid |-> TRUE,
          keys |-> {members[i].key : i \in 1..Len(members)},
          members |-> members]
    ELSE [valid |-> FALSE]

\* JSON.parse, for the texts the model holds: an object of string members, or
\* a SyntaxError.
JsonParse(text) ==
    IF Len(text) < 2 \/ CharAt(text, 1) # "{" \/ CharAt(text, Len(text)) # "}"
    THEN [valid |-> FALSE]
    ELSE IF Len(text) = 2 THEN [valid |-> TRUE, keys |-> {}, members |-> <<>>]
    ELSE JsonObjectOf(JsonMembers(Split(Unquoted(text), ",")))

\* object[key], "" standing for undefined
JsonGet(object, key) ==
    IF key \in object.keys
    THEN (object.members[CHOOSE i \in 1..Len(object.members) : object.members[i].key = key]).value
    ELSE ""

\* safeJsonParse: the parsed value, or a throw
safeJsonParse(text) == JsonParse(text)

\* validatePackageJson(data, context): data, or a throw when data.name is not
\* a string
validatePackageJson(data) ==
    IF data.valid /\ "name" \in data.keys THEN data ELSE [valid |-> FALSE]

-----------------------------------------------------------------------------
(* child.ts: the validators and the command runner *)

\* validRefPattern /^[a-zA-Z0-9._/-]+$/
RefChars == Lower \cup Upper \cup Digits \cup {".", "_", "/", "-"}

\* the third of invalidPatterns: white space and the shell metacharacters
\* (the backquote, which a TLA+ string cannot hold, is not in RefChars either)
ShellMeta == WhiteSpace \cup {";", "<", ">", "|", "&", "$", "(", ")", "{", "}", "[", "]"}

validateGitRefNoDash(ref) ==
    /\ Len(ref) > 0
    /\ \A i \in 1..Len(ref) : CharAt(ref, i) \in RefChars
    /\ ~Includes(ref, "..")
    /\ ~(\E i \in 1..Len(ref) : CharAt(ref, i) \in ShellMeta)

validateGitRef(ref) ==
    /\ Len(ref) > 0
    /\ \A i \in 1..Len(ref) : CharAt(ref, i) \in RefChars
    /\ ~Includes(ref, "..")
    /\ ~StartsWith(ref, "-")
    /\ ~(\E i \in 1..Len(ref) : CharAt(ref, i) \in ShellMeta)

\* What a spawned command does: it exits 0 with its output, exits non-zero
\* having written stderr, or fails to start.
Ok(out) == [kind |-> "ok", stdout |-> out, stderr |-> ""]
Exit(code, err) == [kind |-> "exit", code |-> code, stdout |-> "", stderr |-> err]
SpawnError == [kind |-> "spawn", stdout |-> "", stderr |-> ""]

\* Failures of a command whose stderr text plays no part.
Failures == {Exit("128", "fatal: error"), SpawnError}

CommandLine(args) == Join(<<"git">> \o args, " ")

\* runSecure('git', args): resolves with the streams, or rejects with an Error
\* whose message is built from the command line and the exit code.
runSecure(args, outcome) ==
    IF outcome.kind = "ok"
    THEN [ok |-> TRUE, stdout |-> outcome.stdout, stderr |-> outcome.stderr]
    ELSE IF outcome.kind = "exit"
    THEN [ok |-> FALSE,
          message |-> "Command \"" \o CommandLine(args)
                      \o "\" failed with exit code " \o outcome.code]
    ELSE [ok |-> FALSE, message |-> "spawn git EAGAIN"]

\* The record of a spawned command in cmds.
Spawned(args, outcome) ==
    [cmd |-> CommandLine(args), ok |-> outcome.kind = "ok",
     stdout |-> outcome.stdout, stderr |-> outcome.stderr]


-----------------------------------------------------------------------------
(* git.ts: helpers of the branch sync engine *)

NoResult == [pending |-> TRUE]

\* The locals of getGitStatusSummary before they are assigned.
NoSummary == [originalCwd |-> "", branch |-> "", unstagedCount |-> 0, uncommittedCount |-> 0]

\* A tag name or null, as findPreviousReleaseTag returns it.
Found(tag) == [found |-> TRUE, tag |-> tag]
NotFound == [found |-> FALSE]

\* isValidGitRemoteName
isValidGitRemoteName(r) ==
    /\ Len(r) > 0
    /\ ~StartsWith(r, "-")
    /\ \A i \in 1..Len(r) : CharAt(r, i) \in RefChars

\* The outcome of git rev-parse --verify <ref> that isValidGitRefSilent awaits:
\* it fails when the ref does not exist, and may fail for any other reason.
ProbeOutcomes(exists) ==
    IF exists THEN {Ok("a1b2c3\n")} \cup Failures ELSE Failures

isValidGitRefSilentAlways(ref, outcome) == TRUE

\* isValidGitRefSilent(ref) with the outcome of its command
isValidGitRefSilent(ref, outcome) ==
    IF ~validateGitRef(ref) THEN FALSE ELSE runSecure(<<"rev-parse", "--verify", ref>>, outcome).ok

\* The commands isValidGitRefSilent(ref) spawns.
ProbeSpawned(ref, outcome) ==
    IF ~validateGitRef(ref) THEN <<>>
    ELSE <<Spawned(<<"rev-parse", "--verify", ref>>, outcome)>>

LocalRef(b) == "refs/heads/" \o b
RemoteRef(r, b) == "refs/remotes/" \o r \o "/" \o b

\* The texts git pull --ff-only writes to stderr when it fails.
PullStderr == {"fatal: Not possible to fast-forward, aborting.",
               "error: Your branch and the remote have diverged",
               "CONFLICT (content): Merge conflict in file.txt",
               "fatal: unable to access the remote"}
PullFailures == {Exit("1", e) : e \in PullStderr} \cup {SpawnError}

\* The four substrings the catch block looks for in pullError.message.
ConflictNeedles == {"diverged", "non-fast-forward", "conflict", "CONFLICT"}

IsConflictText(message) == \E n \in ConflictNeedles : Includes(message, n)

\* The return statements of catch (pullError).
PullFailureResultSucceeds(message, b, r) ==
    IF IsConflictText(message)
    THEN [success |-> TRUE,
          conflictResolutionRequired |-> TRUE,
          error |-> "Branch '" \o b \o "' has diverged from '" \o r \o "/" \o b
                    \o "' and requires manual conflict resolution"]
    ELSE [success |-> FALSE, error |-> "Failed to sync branch '" \o b \o "': " \o message]

PullFailureResult(message, b, r) ==
    IF IsConflictText(message)
    THEN [success |-> FALSE,
          conflictResolutionRequired |-> TRUE,
          error |-> "Branch '" \o b \o "' has diverged from '" \o r \o "/" \o b
                    \o "' and requires manual conflict resolution"]
    ELSE [success |-> FALSE, error |-> "Failed to sync branch '" \o b \o "': " \o message]

\* The return statement of the outer catch (error).
SyncFailureResult(message, b) ==
    [success |-> FALSE, error |-> "Failed to sync branch '" \o b \o "': " \o message]

UncommittedResult(b) ==
    [success |-> FALSE,
     error |-> "Cannot switch to branch '" \o b
               \o "' because you have uncommitted changes. Please commit or stash your changes first."]

\* if (statusOutput.trim())
HasUncommittedChangesInverted(statusOutput) == Trim(statusOutput) = ""

HasUncommittedChanges(statusOutput) == Trim(statusOutput) # ""

\* The arguments of the command that creates the local branch.
CreateBranchArgsFromHead(b, r) == <<"branch", b>>

CreateBranchArgs(b, r) == <<"branch", b, r \o "/" \o b>>

\* const needToSwitch = originalBranch !== branchName
NeedToSwitchNever(original, target) == FALSE

NeedToSwitch(original, target) == original # target

\* What git status --porcelain prints.
StatusOutput(isDirty) == IF isDirty THEN " M file.txt\n" ELSE ""

Return(r) ==
    /\ result' = r
    /\ pc' = "done"

-----------------------------------------------------------------------------
(* git.ts: safeSyncBranchWithRemote *)

\* The arguments the calls are made with.
BranchNames == {"main", "feature", "fix-conflict", "-b", "a..b", ""}
RemoteNames == {"origin", "diverged", "--evil", "up..stream", "bad;name"}

\* The call, up to its first await: the validation of both arguments.
SafeSyncCall(b, r) ==
    /\ op = "none"
    /\ op' = "sync"
    /\ branchName' = b
    /\ remote' = r
    /\ IF ~isValidGitRemoteName(r)
       THEN Return([success |-> FALSE, error |-> "Invalid remote name: '" \o r \o "'"])
       ELSE IF ~validateGitRef(b)
       THEN Return(SyncFailureResult("Invalid branch name: " \o b, b))
       ELSE IF ~validateGitRef(r)
       THEN Return(SyncFailureResult("Invalid remote name: " \o r, b))
       ELSE IF StartsWith(r, "-")
       THEN Return(SyncFailureResult("Disallowed remote name (cannot start with '-'): " \o r, b))
       ELSE pc' = "current" /\ result' = result
    /\ UNCHANGED <<originalBranch, localExists, remoteExists, needToSwitch, pullError,
                   localSha, syncRest, cmds, warned, repoVars>>

\* git branch --show-current
SyncShowCurrent ==
    /\ op = "sync" /\ pc = "current"
    /\ \E outcome \in {Ok(checkedOut \o "\n")} \cup Failures :
        LET args == <<"branch", "--show-current">>
            run == runSecure(args, outcome)
        IN  /\ cmds' = Append(cmds, Spawned(args, outcome))
            /\ IF run.ok
               THEN /\ originalBranch' = Trim(run.stdout)
                    /\ pc' = "fetch"
                    /\ result' = result
               ELSE /\ Return(SyncFailureResult(run.message, branchName))
                    /\ UNCHANGED originalBranch
    /\ UNCHANGED <<op, branchName, remote, localExists, remoteExists, needToSwitch,
                   pullError, localSha, syncRest, warned, repoVars>>

\* What a successful fetch may do to the remote-tracking ref of the target.
FetchedRefs(r, b) ==
    {trackingRefs, trackingRefs \cup {<<r, b>>}, trackingRefs \ {<<r, b>>}}

Shas == {"a1", "b2"}

\* git fetch <remote> --quiet
SyncFetch ==
    /\ op = "sync" /\ pc = "fetch"
    /\ \E outcome \in {Ok("")} \cup Failures :
        LET args == <<"fetch", remote, "--quiet">>
            run == runSecure(args, outcome)
        IN  /\ cmds' = Append(cmds, Spawned(args, outcome))
            /\ IF run.ok
               THEN /\ trackingRefs' \in FetchedRefs(remote, branchName)
                    /\ shaRemote' \in Shas
                    /\ pc' = "probeLocal"
                    /\ result' = result
               ELSE /\ Return(SyncFailureResult(run.message, branchName))
                    /\ UNCHANGED <<trackingRefs, shaRemote>>
    /\ UNCHANGED <<op, callVars, syncRest, warned, checkedOut, localBranches, dirty, shaLocal>>

\* localBranchExists(branchName)
SyncProbeLocal ==
    /\ op = "sync" /\ pc = "probeLocal"
    /\ \E outcome \in ProbeOutcomes(branchName \in localBranches) :
        /\ cmds' = cmds \o ProbeSpawned(LocalRef(branchName), outcome)
        /\ localExists' = isValidGitRefSilent(LocalRef(branchName), outcome)
    /\ pc' = "probeRemote"
    /\ UNCHANGED <<op, branchName, remote, originalBranch, remoteExists, needToSwitch,
                   pullError, localSha, result, syncRest, warned, repoVars>>

\* remoteBranchExists(branchName, remote), and the decisions that follow it
SyncProbeRemote ==
    /\ op = "sync" /\ pc = "probeRemote"
    /\ \E outcome \in ProbeOutcomes(<<remote, branchName>> \in trackingRefs) :
        LET found == isValidGitRefSilent(RemoteRef(remote, branchName), outcome)
        IN  /\ cmds' = cmds \o ProbeSpawned(RemoteRef(remote, branchName), outcome)
            /\ remoteExists' = found
            /\ IF ~found
               THEN /\ Return([success |-> FALSE,
                               error |-> "Remote branch '" \o remote \o "/" \o branchName
                                         \o "' does not exist"])
                    /\ UNCHANGED needToSwitch
               ELSE IF ~localExists
               THEN /\ pc' = "create"
                    /\ UNCHANGED <<result, needToSwitch>>
               ELSE /\ needToSwitch' = NeedToSwitch(originalBranch, branchName)
                    /\ pc' = IF NeedToSwitch(originalBranch, branchName) THEN "status" ELSE "pull"
                    /\ result' = result
    /\ UNCHANGED <<op, branchName, remote, originalBranch, localExists, pullError,
                   localSha, syncRest, warned, repoVars>>

\* git branch <branchName> <remote>/<branchName>
SyncCreateLocal ==
    /\ op = "sync" /\ pc = "create"
    /\ \E outcome \in {Ok("")} \cup Failures :
        LET args == CreateBranchArgs(branchName, remote)
            run == runSecure(args, outcome)
        IN  /\ cmds' = Append(cmds, Spawned(args, outcome))
            /\ IF run.ok
               THEN /\ localBranches' = localBranches \cup {branchName}
                    /\ shaLocal' = shaRemote
                    /\ Return([success |-> TRUE])
               ELSE /\ Return(SyncFailureResult(run.message, branchName))
                    /\ UNCHANGED <<localBranches, shaLocal>>
    /\ UNCHANGED <<op, callVars, syncRest, warned, checkedOut, trackingRefs, dirty, shaRemote>>

\* git status --porcelain, when a switch is needed
SyncStatus ==
    /\ op = "sync" /\ pc = "status"
    /\ \E outcome \in {Ok(StatusOutput(dirty))} \cup Failures :
        LET args == <<"status", "--porcelain">>
            run == runSecure(args, outcome)
        IN  /\ cmds' = Append(cmds, Spawned(args, outcome))
            /\ IF ~run.ok
               THEN Return(SyncFailureResult(run.message, branchName))
               ELSE IF HasUncommittedChanges(run.stdout)
               THEN Return(UncommittedResult(branchName))
               ELSE pc' = "checkout" /\ result' = result
    /\ UNCHANGED <<op, callVars, syncRest, warned, repoVars>>

\* git checkout <branchName>
SyncCheckout ==
    /\ op = "sync" /\ pc = "checkout"
    /\ \E outcome \in {Ok("")} \cup Failures :
        LET args == <<"checkout", branchName>>
            run == runSecure(args, outcome)
        IN  /\ cmds' = Append(cmds, Spawned(args, outcome))
            /\ IF run.ok
               THEN /\ checkedOut' = branchName
                    /\ pc' = "pull"
                    /\ result' = result
               ELSE /\ Return(SyncFailureResult(run.message, branchName))
                    /\ UNCHANGED checkedOut
    /\ UNCHANGED <<op, callVars, syncRest, warned, localBranches, trackingRefs, dirty,
                   shaLocal, shaRemote>>

\* git pull <remote> <branchName> --ff-only, the first statement of the inner try
SyncPull ==
    /\ op = "sync" /\ pc = "pull"
    /\ \E outcome \in {Ok("")} \cup PullFailures :
        LET args == <<"pull", remote, branchName, "--ff-only">>
            run == runSecure(args, outcome)
            back == needToSwitch /\ originalBranch # ""
        IN  /\ cmds' = Append(cmds, Spawned(args, outcome))
            /\ IF run.ok
               THEN /\ shaLocal' = shaRemote
                    /\ UNCHANGED pullError
                    /\ IF back
                       THEN pc' = "back" /\ result' = result
                       ELSE Return([success |-> TRUE])
               ELSE /\ pullError' = run.message
                    /\ UNCHANGED shaLocal
                    /\ IF back
                       THEN pc' = "restore" /\ result' = result
                       ELSE Return(PullFailureResult(run.message, branchName, remote))
    /\ UNCHANGED <<op, branchName, remote, originalBranch, localExists, remoteExists,
                   needToSwitch, localSha, syncRest, warned, checkedOut, localBranches,
                   trackingRefs, dirty, shaRemote>>

\* git checkout <originalBranch> after a successful pull: still inside the inner
\* try, so its failure is caught by catch (pullError).
SyncCheckoutBack ==
    /\ op = "sync" /\ pc = "back"
    /\ \E outcome \in {Ok("")} \cup Failures :
        LET args == <<"checkout", originalBranch>>
            run == runSecure(args, outcome)
        IN  /\ cmds' = Append(cmds, Spawned(args, outcome))
            /\ IF run.ok
               THEN /\ checkedOut' = originalBranch
                    /\ UNCHANGED pullError
                    /\ Return([success |-> TRUE])
               ELSE /\ pullError' = run.message
                    /\ UNCHANGED checkedOut
                    /\ pc' = "restore"
                    /\ result' = result
    /\ UNCHANGED <<op, branchName, remote, originalBranch, localExists, remoteExists,
                   needToSwitch, localSha, syncRest, warned, localBranches, trackingRefs,
                   dirty, shaLocal, shaRemote>>

\* catch (pullError): git checkout <originalBranch>, its failure logged and
\* swallowed, then the classification of pullError.message.
SyncRestore ==
    /\ op = "sync" /\ pc = "restore"
    /\ \E outcome \in {Ok("")} \cup Failures :
        LET args == <<"checkout", originalBranch>>
            run == runSecure(args, outcome)
        IN  /\ cmds' = Append(cmds, Spawned(args, outcome))
            /\ IF run.ok
               THEN checkedOut' = originalBranch /\ UNCHANGED warned
               ELSE warned' = warned + 1 /\ UNCHANGED checkedOut
    /\ Return(PullFailureResult(pullError, branchName, remote))
    /\ UNCHANGED <<op, callVars, syncRest, localBranches, trackingRefs, dirty,
                   shaLocal, shaRemote>>

-----------------------------------------------------------------------------
(* git.ts: isBranchInSyncWithRemote *)

\* The return statement of its catch (error).
InSyncFailureResultFlagsKept(message) ==
    [inSync |-> FALSE, localExists |-> TRUE, remoteExists |-> FALSE,
     error |-> "Failed to check branch sync: " \o message]

InSyncFailureResult(message) ==
    [inSync |-> FALSE, localExists |-> FALSE, remoteExists |-> FALSE,
     error |-> "Failed to check branch sync: " \o message]

\* The two early returns: the local branch is absent, or the remote one is.
AbsentResultFlagsFalse(localFound, remoteFound, b, r) ==
    InSyncFailureResult("Branch '" \o b \o "' does not exist")

AbsentResult(localFound, remoteFound, b, r) ==
    IF ~localFound
    THEN [inSync |-> FALSE, localExists |-> FALSE, remoteExists |-> remoteFound,
          error |-> "Local branch '" \o b \o "' does not exist"]
    ELSE [inSync |-> FALSE, localExists |-> TRUE, remoteExists |-> FALSE,
          error |-> "Remote branch '" \o r \o "/" \o b \o "' does not exist"]

\* The return after both SHAs were read.
ComparedResultDivergedIsError(local, remoteSha) ==
    IF local = remoteSha
    THEN [inSync |-> TRUE, localSha |-> local, remoteSha |-> remoteSha,
          localExists |-> TRUE, remoteExists |-> TRUE]
    ELSE [inSync |-> FALSE, localSha |-> local, remoteSha |-> remoteSha,
          localExists |-> TRUE, remoteExists |-> TRUE, error |-> "Branches have diverged"]

ComparedResult(local, remoteSha) ==
    [inSync |-> local = remoteSha, localSha |-> local, remoteSha |-> remoteSha,
     localExists |-> TRUE, remoteExists |-> TRUE]

\* The call, up to its first await: the validation of both arguments.
InSyncCall(b, r) ==
    /\ op = "none"
    /\ op' = "insync"
    /\ branchName' = b
    /\ remote' = r
    /\ IF ~validateGitRef(b)
       THEN Return(InSyncFailureResult("Invalid branch name: " \o b))
       ELSE IF ~validateGitRef(r)
       THEN Return(InSyncFailureResult("Invalid remote name: " \o r))
       ELSE pc' = "fetch" /\ result' = result
    /\ UNCHANGED <<originalBranch, localExists, remoteExists, needToSwitch, pullError,
                   localSha, syncRest, cmds, warned, repoVars>>

\* git fetch <remote> --quiet
InSyncFetch ==
    /\ op = "insync" /\ pc = "fetch"
    /\ \E outcome \in {Ok("")} \cup Failures :
        LET args == <<"fetch", remote, "--quiet">>
            run == runSecure(args, outcome)
        IN  /\ cmds' = Append(cmds, Spawned(args, outcome))
            /\ IF run.ok
               THEN /\ trackingRefs' \in FetchedRefs(remote, branchName)
                    /\ shaRemote' \in Shas
                    /\ pc' = "probeLocal"
                    /\ result' = result
               ELSE /\ Return(InSyncFailureResult(run.message))
                    /\ UNCHANGED <<trackingRefs, shaRemote>>
    /\ UNCHANGED <<op, callVars, syncRest, warned, checkedOut, localBranches, dirty, shaLocal>>

\* localBranchExists(branchName)
InSyncProbeLocal ==
    /\ op = "insync" /\ pc = "probeLocal"
    /\ \E outcome \in ProbeOutcomes(branchName \in localBranches) :
        /\ cmds' = cmds \o ProbeSpawned(LocalRef(branchName), outcome)
        /\ localExists' = isValidGitRefSilent(LocalRef(branchName), outcome)
    /\ pc' = "probeRemote"
    /\ UNCHANGED <<op, branchName, remote, originalBranch, remoteExists, needToSwitch,
                   pullError, localSha, result, syncRest, warned, repoVars>>

\* remoteBranchExists(branchName, remote), and the two early returns
InSyncProbeRemote ==
    /\ op = "insync" /\ pc = "probeRemote"
    /\ \E outcome \in ProbeOutcomes(<<remote, branchName>> \in trackingRefs) :
        LET found == isValidGitRefSilent(RemoteRef(remote, branchName), outcome)
        IN  /\ cmds' = cmds \o ProbeSpawned(RemoteRef(remote, branchName), outcome)
            /\ remoteExists' = found
            /\ IF ~localExists \/ ~found
               THEN Return(AbsentResult(localExists, found, branchName, remote))
               ELSE pc' = "localSha" /\ result' = result
    /\ UNCHANGED <<op, branchName, remote, originalBranch, localExists, needToSwitch,
                   pullError, localSha, syncRest, warned, repoVars>>

\* getBranchCommitSha('refs/heads/<branchName>')
InSyncLocalSha ==
    /\ op = "insync" /\ pc = "localSha"
    /\ \E outcome \in {Ok(shaLocal \o "\n")} \cup Failures :
        LET args == <<"rev-parse", LocalRef(branchName)>>
            run == runSecure(args, outcome)
        IN  IF ~validateGitRef(LocalRef(branchName))
            THEN /\ Return(InSyncFailureResult("Invalid git reference: " \o LocalRef(branchName)))
                 /\ UNCHANGED <<cmds, localSha>>
            ELSE /\ cmds' = Append(cmds, Spawned(args, outcome))
                 /\ IF run.ok
                    THEN /\ localSha' = Trim(run.stdout)
                         /\ pc' = "remoteSha"
                         /\ result' = result
                    ELSE /\ Return(InSyncFailureResult(run.message))
                         /\ UNCHANGED localSha
    /\ UNCHANGED <<op, branchName, remote, originalBranch, localExists, remoteExists,
                   needToSwitch, pullError, syncRest, warned, repoVars>>

\* getBranchCommitSha('refs/remotes/<remote>/<branchName>'), and the comparison
InSyncRemoteSha ==
    /\ op = "insync" /\ pc = "remoteSha"
    /\ \E outcome \in {Ok(shaRemote \o "\n")} \cup Failures :
        LET ref == RemoteRef(remote, branchName)
            args == <<"rev-parse", ref>>
            run == runSecure(args, outcome)
        IN  IF ~validateGitRef(ref)
            THEN /\ Return(InSyncFailureResult("Invalid git reference: " \o ref))
                 /\ UNCHANGED cmds
            ELSE /\ cmds' = Append(cmds, Spawned(args, outcome))
                 /\ IF run.ok
                    THEN Return(ComparedResult(localSha, Trim(run.stdout)))
                    ELSE Return(InSyncFailureResult(run.message))
    /\ UNCHANGED <<op, callVars, syncRest, warned, repoVars>>

-----------------------------------------------------------------------------
(* The branch sync engine: one call on a repository in any state *)

ValidBranches == {b \in BranchNames : validateGitRef(b)}
ValidRemotes == {r \in RemoteNames : validateGitRef(r)}

\* No call has been made yet.
\* Two calls may be in flight at once; a call that has not started yet.
Calls == {1, 2}
IdleSummary == [pc |-> "idle", workingDir |-> "", originalCwd |-> "", overlapped |-> FALSE,
                ran |-> <<>>, returned |-> ""]
IdleSync == [pc |-> "idle", branchName |-> "", originalBranch |-> "", localExists |-> FALSE,
             needToSwitch |-> FALSE, overlapped |-> FALSE, spawnedOn |-> "", ran |-> <<>>,
             success |-> FALSE]

InitCall ==
    /\ op = "none"
    /\ pc = "start"
    /\ branchName = ""
    /\ remote = ""
    /\ originalBranch = ""
    /\ localExists = FALSE
    /\ remoteExists = FALSE
    /\ needToSwitch = FALSE
    /\ pullError = ""
    /\ localSha = ""
    /\ result = NoResult
    /\ raised = FALSE
    /\ cmds = <<>>
    /\ warned = 0
    /\ currentVersion = ""
    /\ tagPattern = ""
    /\ tags = <<>>
    /\ forceMainBranch = FALSE
    /\ currentBranch = ""
    /\ foundTag = NotFound
    /\ candidate = 1
    /\ fileReads = <<>>
    /\ summaries = [i \in Calls |-> IdleSummary]
    /\ syncs = [i \in Calls |-> IdleSync]
    /\ workingDir = ""
    /\ cwd = "/home"
    /\ summary = NoSummary

\* A repository on main, in sync with its remote, for the calls that do not
\* depend on the branches.
InitBranches ==
    /\ localBranches = {"main"}
    /\ checkedOut = "main"
    /\ trackingRefs = {<<"origin", "main">>}
    /\ dirty = FALSE
    /\ shaLocal = "a1"
    /\ shaRemote = "a1"

\* A package at version 1.2.0, committed.
InitPackage ==
    /\ headPackage = PackageText("pkg", "1.2.0")
    /\ workPackage = PackageText("pkg", "1.2.0")

\* A clean working tree with nothing to push.
InitStatus ==
    /\ porcelain = ""
    /\ ahead = "0\n"

Init ==
    /\ InitCall
    /\ localBranches \in {{"main"}, {"main", "feature"}, ValidBranches}
    /\ checkedOut \in localBranches \cup {""}
    /\ trackingRefs \in {{}, ValidRemotes \X ValidBranches}
    /\ dirty \in BOOLEAN
    /\ shaLocal = "a1"
    /\ shaRemote \in Shas
    /\ repoTags = {}
    /\ InitPackage
    /\ InitStatus

Next ==
    \/ \E b \in BranchNames, r \in RemoteNames : SafeSyncCall(b, r)
    \/ SyncShowCurrent
    \/ SyncFetch
    \/ SyncProbeLocal
    \/ SyncProbeRemote
    \/ SyncCreateLocal
    \/ SyncStatus
    \/ SyncCheckout
    \/ SyncPull
    \/ SyncCheckoutBack
    \/ SyncRestore
    \/ \E b \in BranchNames, r \in RemoteNames : InSyncCall(b, r)
    \/ InSyncFetch
    \/ InSyncProbeLocal
    \/ InSyncProbeRemote
    \/ InSyncLocalSha
    \/ InSyncRemoteSha

Spec == Init /\ [][Next]_vars

-----------------------------------------------------------------------------
(* Properties of safeSyncBranchWithRemote and isBranchInSyncWithRemote *)

SyncDone == op = "sync" /\ pc = "done"

\* Some spawned command is git <word> ...
Issued(word) == \E i \in 1..Len(cmds) : StartsWith(cmds[i].cmd, "git " \o word)

PullCommand == "git pull " \o remote \o " " \o branchName \o " --ff-only"
CheckoutCommand(b) == "git checkout " \o b

PullSucceeded == \E i \in 1..Len(cmds) : cmds[i].cmd = PullCommand /\ cmds[i].ok
PullFailed == \E i \in 1..Len(cmds) : cmds[i].cmd = PullCommand /\ ~cmds[i].ok

\* The call checked the target branch out.
Switched ==
    \E i \in 1..Len(cmds) : cmds[i].cmd = CheckoutCommand(branchName) /\ cmds[i].ok

StatusReportedChanges ==
    \E i \in 1..Len(cmds) :
        /\ cmds[i].cmd = "git status --porcelain"
        /\ cmds[i].ok
        /\ Trim(cmds[i].stdout) # ""

HasError(r) == "error" \in DOMAIN r
ConflictFlagged(r) ==
    "conflictResolutionRequired" \in DOMAIN r /\ r.conflictResolutionRequired

\* C2: when both branches exist, the checked-out branch is not the target and
\* git status --porcelain reports a change, the call returns success=false
\* with an error containing 'uncommitted changes', and it has spawned neither
\* a checkout nor a pull.
C2_DirtySwitchAborts ==
    ( /\ op = "sync"
      /\ localExists /\ remoteExists
      /\ originalBranch # branchName
      /\ StatusReportedChanges )
    => /\ pc = "done"
       /\ ~raised
       /\ result.success = FALSE
       /\ Includes(result.error, "uncommitted changes")
       /\ ~Issued("checkout")
       /\ ~Issued("pull")

C2_Witness ==
    /\ SyncDone
    /\ localExists /\ remoteExists
    /\ originalBranch # branchName
    /\ StatusReportedChanges
    /\ dirty

\* C3: when a switch occurred and the pull succeeded, the call returns
\* success=true, also when the checkout back to the original branch failed.
C3_RestoreFailureKeepsSuccess ==
    (SyncDone /\ Switched /\ PullSucceeded) => result.success = TRUE

\* C4: when the pull failed after a switch, a checkout of the original branch
\* was attempted after the pull, and the call returned (did not raise)
\* success=false reporting the pull failure and not a checkout failure.
C4_PullFailureRestores ==
    (SyncDone /\ Switched /\ PullFailed)
    => /\ \E i, j \in 1..Len(cmds) :
            /\ i < j
            /\ cmds[i].cmd = PullCommand
            /\ StartsWith(cmds[j].cmd, "git checkout")
       /\ ~raised
       /\ result.success = FALSE
       /\ ConflictFlagged(result) \/ Includes(result.error, pullError)
       /\ ~Includes(result.error, "git checkout")

\* C5: when the pull failed, conflictResolutionRequired is set exactly when
\* the text git wrote for the failing pull contains one of the four
\* substrings; otherwise the result is success=false, without the flag.
C5_ConflictFollowsGitText ==
    \A i \in 1..Len(cmds) :
        (SyncDone /\ cmds[i].cmd = PullCommand /\ ~cmds[i].ok)
        => /\ result.success = FALSE
           /\ HasError(result)
           /\ ConflictFlagged(result) <=> IsConflictText(cmds[i].stderr)

\* The reference validator and the remote-name predicate as the interface
\* states them.
RejectedReference(text) ==
    \/ text = ""
    \/ StartsWith(text, "-")
    \/ Includes(text, "..")
    \/ \E i \in 1..Len(text) : CharAt(text, i) \notin RefChars

\* C6: with a remote name that starts with '-' or fails the remote-name
\* predicate or the reference validator, or a branch name that fails the
\* reference validator, the call spawns nothing and returns (does not raise)
\* success=false with an error naming the invalid remote or branch.
C6_InvalidNamesSpawnNothing ==
    (op = "sync" /\ (RejectedReference(remote) \/ RejectedReference(branchName)))
    => /\ pc = "done"
       /\ cmds = <<>>
       /\ ~raised
       /\ result.success = FALSE
       /\ \/ /\ RejectedReference(remote)
             /\ Includes(result.error, "Invalid remote name")
             /\ Includes(result.error, remote)
          \/ /\ RejectedReference(branchName)
             /\ Includes(result.error, "Invalid branch name: " \o branchName)

C6_Witness ==
    /\ SyncDone
    /\ ~RejectedReference(remote)
    /\ StartsWith(branchName, "-")
    /\ result.success = FALSE

\* C7: every result the call returns has no error when success=true and has
\* success=false when conflictResolutionRequired=true.
C7_ResultInvariant ==
    SyncDone =>
        /\ result.success = TRUE => ~HasError(result)
        /\ ConflictFlagged(result) => result.success = FALSE

C7_Witness == SyncDone /\ ConflictFlagged(result) /\ PullFailed

\* C8: within one call no git command is spawned twice.
C8_NoCommandTwice ==
    \A i, j \in 1..Len(cmds) : i # j => cmds[i].cmd # cmds[j].cmd

\* C9 as stated: when the remote probe found the branch and the local probe did
\* not, the call creates the branch from <remote>/<branch> and returns
\* success=true, without a status, checkout or pull command.
C9_CreatesAndSucceeds ==
    (SyncDone /\ remoteExists /\ ~localExists)
    => /\ Len(cmds) > 0
       /\ cmds[Len(cmds)].cmd
            = "git branch " \o branchName \o " " \o remote \o "/" \o branchName
       /\ result.success = TRUE
       /\ ~Issued("status") /\ ~Issued("checkout") /\ ~Issued("pull")

\* C9 amended: ... the call spawns git branch <branch> <remote>/<branch> as its
\* last command and returns success=true when that command succeeds and
\* success=false with an error when it fails; in both cases it spawns no
\* status, checkout or pull command.
C9_CreatesFromRemote ==
    (SyncDone /\ remoteExists /\ ~localExists)
    => /\ Len(cmds) > 0
       /\ cmds[Len(cmds)].cmd
            = "git branch " \o branchName \o " " \o remote \o "/" \o branchName
       /\ result.success = cmds[Len(cmds)].ok
       /\ ~result.success => HasError(result)
       /\ ~raised
       /\ ~Issued("status") /\ ~Issued("checkout") /\ ~Issued("pull")

C9_Witness ==
    /\ SyncDone /\ remoteExists /\ ~localExists
    /\ result.success = TRUE
    /\ branchName \in localBranches

\* Properties of isBranchInSyncWithRemote

InSyncDone == op = "insync" /\ pc = "done"

FetchCommand == "git fetch " \o remote \o " --quiet"
LocalShaCommand == "git rev-parse refs/heads/" \o branchName
RemoteShaCommand == "git rev-parse refs/remotes/" \o remote \o "/" \o branchName
LocalProbeCommand == "git rev-parse --verify refs/heads/" \o branchName
RemoteProbeCommand == "git rev-parse --verify refs/remotes/" \o remote \o "/" \o branchName

\* The command was spawned and succeeded.
Succeeded(command) == \E i \in 1..Len(cmds) : cmds[i].cmd = command /\ cmds[i].ok
Failed(command) == \E i \in 1..Len(cmds) : cmds[i].cmd = command /\ ~cmds[i].ok
OutputOf(command) == cmds[CHOOSE i \in 1..Len(cmds) : cmds[i].cmd = command].stdout

\* C14: when the fetch succeeded, both probes found their branch and both
\* SHAs were read, the call returns inSync = (localSha = remoteSha) with both
\* SHAs, localExists = remoteExists = true and no error, also when the SHAs
\* differ.
C14_ComparesShas ==
    ( /\ InSyncDone
      /\ Succeeded(FetchCommand)
      /\ Succeeded(LocalProbeCommand) /\ Succeeded(RemoteProbeCommand)
      /\ Succeeded(LocalShaCommand) /\ Succeeded(RemoteShaCommand) )
    => /\ ~raised
       /\ result.localSha = Trim(OutputOf(LocalShaCommand))
       /\ result.remoteSha = Trim(OutputOf(RemoteShaCommand))
       /\ result.inSync = (result.localSha = result.remoteSha)
       /\ result.localExists = TRUE
       /\ result.remoteExists = TRUE
       /\ ~HasError(result)

C14_Witness ==
    /\ InSyncDone
    /\ Succeeded(LocalShaCommand) /\ Succeeded(RemoteShaCommand)
    /\ result.inSync = FALSE
    /\ result.localSha = "a1" /\ result.remoteSha = "b2"

\* C15: when the fetch succeeded and a probe did not find its branch, the call
\* returns inSync=false with an error naming the absent branch, localExists
\* and remoteExists as the two probes found them, and no SHA was read.
C15_AbsentBranchReported ==
    ( /\ InSyncDone
      /\ Succeeded(FetchCommand)
      /\ Failed(LocalProbeCommand) \/ Failed(RemoteProbeCommand) )
    => /\ ~raised
       /\ result.inSync = FALSE
       /\ HasError(result)
       /\ Includes(result.error, "does not exist")
       /\ Includes(result.error, branchName)
       /\ result.localExists = Succeeded(LocalProbeCommand)
       /\ result.remoteExists = Succeeded(RemoteProbeCommand)
       /\ ~Issued("rev-parse refs/")

C15_Witness ==
    /\ InSyncDone
    /\ Succeeded(FetchCommand)
    /\ Failed(LocalProbeCommand)
    /\ Succeeded(RemoteProbeCommand)
    /\ result.remoteExists = TRUE

\* C16: the call never raises; with a branch or a remote the reference
\* validator rejects it spawns nothing and returns inSync=false with an error
\* naming the invalid argument; when the fetch fails it returns inSync=false,
\* localExists=false, remoteExists=false and an error carrying the message of
\* the failure.
C16_InSyncNeverRaises ==
    op = "insync" =>
        /\ ~raised
        /\ (RejectedReference(branchName) \/ RejectedReference(remote)) =>
            /\ pc = "done"
            /\ cmds = <<>>
            /\ result.inSync = FALSE
            /\ \/ /\ RejectedReference(branchName)
                  /\ Includes(result.error, "Invalid branch name: " \o branchName)
               \/ /\ RejectedReference(remote)
                  /\ Includes(result.error, "Invalid remote name: " \o remote)
        /\ Failed(FetchCommand) =>
            /\ pc = "done"
            /\ Len(cmds) = 1
            /\ result.inSync = FALSE
            /\ result.localExists = FALSE
            /\ result.remoteExists = FALSE
            /\ \/ Includes(result.error, FetchCommand) /\ Includes(result.error, "exit code 128")
               \/ Includes(result.error, "spawn git")

C16_Witness ==
    /\ InSyncDone
    /\ Failed(FetchCommand)
    /\ <<remote, branchName>> \in trackingRefs
    /\ branchName \in localBranches

-----------------------------------------------------------------------------
(* The semver package, as git.ts uses it: parse, lt, gt, rcompare *)

IdChars == Digits \cup Lower \cup Upper \cup {"-"}

\* NUMERICIDENTIFIER 0|[1-9]\d*
IsNumericId(s) ==
    /\ Len(s) > 0
    /\ AllIn(s, Digits)
    /\ Len(s) = 1 \/ CharAt(s, 1) # "0"

\* PRERELEASEIDENTIFIER: a numeric identifier, or \d*[a-zA-Z-][a-zA-Z0-9-]*
IsPrereleaseId(s) ==
    \/ IsNumericId(s)
    \/ /\ Len(s) > 0
       /\ AllIn(s, IdChars)
       /\ ~AllIn(s, Digits)

\* BUILDIDENTIFIER [a-zA-Z0-9-]+
IsBuildId(s) == Len(s) > 0 /\ AllIn(s, IdChars)

NoVersion == [valid |-> FALSE]

\* What stands before the first c of s, and the dot-separated identifiers
\* that stand after it.
BeforeFirst(s, c) == IF IndexOf(s, c) = 0 THEN s ELSE SubSeq(s, 1, IndexOf(s, c) - 1)

IdentifiersAfter(s, c) ==
    IF IndexOf(s, c) = 0 THEN <<>> ELSE Split(SubSeq(s, IndexOf(s, c) + 1, Len(s)), ".")

\* new SemVer(...) from the parts FULL captures, null when they do not match
SemVerOf(nums, preIds, buildIds) ==
    IF /\ Len(nums) = 3
       /\ \A i \in 1..3 : IsNumericId(nums[i])
       /\ \A i \in 1..Len(preIds) : IsPrereleaseId(preIds[i])
       /\ \A i \in 1..Len(buildIds) : IsBuildId(buildIds[i])
    THEN [valid |-> TRUE,
          major |-> ToNumber(nums[1]),
          minor |-> ToNumber(nums[2]),
          patch |-> ToNumber(nums[3]),
          prerelease |-> preIds]
    ELSE NoVersion

\* MAINVERSION(-PRERELEASE)?
ParseCore(core, buildIds) ==
    SemVerOf(Split(BeforeFirst(core, "-"), "."), IdentifiersAfter(core, "-"), buildIds)

\* v?MAINVERSION(-PRERELEASE)?(+BUILD)?
ParseFull(t) ==
    ParseCore(BeforeFirst(IF StartsWith(t, "v") THEN SubSeq(t, 2, Len(t)) ELSE t, "+"),
              IdentifiersAfter(t, "+"))

\* semver.parse(text): the SemVer of the trimmed text when it matches FULL,
\* else null
semverParse(text) == ParseFull(Trim(text))

Sign(x, y) == IF x < y THEN -1 ELSE IF x > y THEN 1 ELSE 0

\* compareIdentifiers(a, b)
compareIdentifiers(a, b) ==
    LET anum == AllIn(a, Digits)
        bnum == AllIn(b, Digits)
    IN  IF anum /\ bnum THEN Sign(ToNumber(a), ToNumber(b))
        ELSE IF a = b THEN 0
        ELSE IF anum THEN -1
        ELSE IF bnum THEN 1
        ELSE IF StringLess(a, b) THEN -1 ELSE 1

\* SemVer.comparePre, from identifier i on
RECURSIVE comparePreFrom(_, _, _)
comparePreFrom(a, b, i) ==
    IF i > Len(a) /\ i > Len(b) THEN 0
    ELSE IF i > Len(b) THEN 1
    ELSE IF i > Len(a) THEN -1
    ELSE IF compareIdentifiers(a[i], b[i]) # 0 THEN compareIdentifiers(a[i], b[i])
    ELSE comparePreFrom(a, b, i + 1)

comparePre(a, b) ==
    IF Len(a) > 0 /\ Len(b) = 0 THEN -1
    ELSE IF Len(a) = 0 /\ Len(b) > 0 THEN 1
    ELSE comparePreFrom(a, b, 1)

\* SemVer.compare: compareMain, then comparePre
semverCompare(a, b) ==
    IF a.major # b.major THEN Sign(a.major, b.major)
    ELSE IF a.minor # b.minor THEN Sign(a.minor, b.minor)
    ELSE IF a.patch # b.patch THEN Sign(a.patch, b.patch)
    ELSE comparePre(a.prerelease, b.prerelease)

semverLt(a, b) == semverCompare(a, b) < 0
semverGt(a, b) == semverCompare(a, b) > 0
semverRcompare(a, b) == semverCompare(b, a)

-----------------------------------------------------------------------------
(* git.ts: findPreviousReleaseTag *)

\* The end of the run of digits of s that starts at i; i - 1 when there is none.
RECURSIVE DigitRunEnd(_, _)
DigitRunEnd(s, i) ==
    IF CharAt(s, i) \in Digits THEN DigitRunEnd(s, i + 1) ELSE i - 1

\* \d+\.\d+\.\d+ matches s at position d.
VersionPatternAt(s, d) ==
    LET e1 == DigitRunEnd(s, d)
        e2 == DigitRunEnd(s, e1 + 2)
    IN  /\ e1 >= d
        /\ CharAt(s, e1 + 1) = "."
        /\ e2 >= e1 + 2
        /\ CharAt(s, e2 + 1) = "."
        /\ DigitRunEnd(s, e2 + 2) >= e2 + 2

NoMatch == [matched |-> FALSE]

\* tag.match(/v?(\d+\.\d+\.\d+.*?)$/): the leftmost match; its group 1 runs
\* from the first digit of the match to the end of the tag.
versionMatch(tag) ==
    LET starts == {d \in 1..Len(tag) : VersionPatternAt(tag, d)}
    IN  IF starts = {} THEN NoMatch
        ELSE LET d == CHOOSE x \in starts : \A y \in starts : x <= y
             IN  [matched |-> TRUE, group1 |-> SubSeq(tag, d, Len(tag))]

\* The arguments the calls are made with, and the tags a repository may hold.
Versions == {"1.2.0", "v1.10.0", "1.2.0-rc.1", "0.9.0", "not-a-version"}
Patterns == {"v*", "working/v*", "*"}
TagPool == {"v1.0.0", "v1.2.0", "v1.10.0", "v1.2.0-rc.1", "vnext", "v01.0.0", "1.1.0",
            "working/v1.0.0", "working/v1.1.0", "working/v1.2.0"}
MaxTags == 3

\* The version the loop and the sort comparator take from a tag: the match,
\* then semver.parse(match[1]).
matchSemver(match) == IF match.matched THEN semverParse(match.group1) ELSE NoVersion

extractSemver(tag) == matchSemver(versionMatch(tag))

\* The same, looked up for the tags of the pool instead of computed again.
PoolSemver == [tag \in TagPool |-> extractSemver(tag)]
tagSemver(tag) == IF tag \in TagPool THEN PoolSemver[tag] ELSE extractSemver(tag)

\* stdout.trim().split('\n').filter(tag => tag.length > 0)
TagsOf(stdout) == NonEmpty(Split(Trim(stdout), "\n"))

\* if (!previousVersion || semver.gt(tagSemver, previousVersion))
BetterCandidateFirstOnly(version, previousVersion) == ~previousVersion.valid

BetterCandidateLowest(version, previousVersion) ==
    ~previousVersion.valid \/ semverLt(version, previousVersion)

BetterCandidate(version, previousVersion) ==
    ~previousVersion.valid \/ semverGt(version, previousVersion)

\* previousTag = tag
KeptTag(tag) == tag

\* The for loop over tags, from tag i on, with previousTag and previousVersion;
\* ScanTag is its body for tag i, whose version is given.
RECURSIVE ScanTags(_, _, _, _, _)
ScanTag(list, i, currentSemver, previousTag, previousVersion, version) ==
    IF /\ version.valid
       /\ semverLt(version, currentSemver)
       /\ BetterCandidate(version, previousVersion)
    THEN ScanTags(list, i + 1, currentSemver, Found(KeptTag(list[i])), version)
    ELSE ScanTags(list, i + 1, currentSemver, previousTag, previousVersion)

ScanTags(list, i, currentSemver, previousTag, previousVersion) ==
    IF i > Len(list) THEN previousTag
    ELSE ScanTag(list, i, currentSemver, previousTag, previousVersion, tagSemver(list[i]))

\* From the listed tags to the return value.
PreviousTagAmong(list, version) ==
    IF Len(list) = 0 THEN NotFound
    ELSE ScanTags(list, 1, semverParse(version), NotFound, NoVersion)

\* The comparator of the manual sort.
compareParsed(aSemver, bSemver) ==
    IF ~aSemver.valid \/ ~bSemver.valid THEN 0 ELSE semverRcompare(aSemver, bSemver)

sortComparator(a, b) == compareParsed(tagSemver(a), tagSemver(b))

\* The orders of the elements of a set.
Orders(set) ==
    {list \in [1..Cardinality(set) -> set] : \A i, j \in DOMAIN list : i # j => list[i] # list[j]}

\* Array.prototype.sort is stable: with a consistent comparator an element
\* comes after those that sort before it and after the earlier ones it compares
\* equal to.
ComesBefore(compared, j, i) == compared < 0 \/ (j < i /\ compared = 0)

SortedPosition(list, i) ==
    1 + Cardinality({j \in 1..Len(list) :
                        ComesBefore(sortComparator(list[j], list[i]), j, i)})

StableSort(list) ==
    [position \in 1..Len(list) |->
        list[CHOOSE i \in 1..Len(list) : SortedPosition(list, i) = position]]

\* The comparator is consistent on the list when comparing equal is transitive
\* (a tag without a version compares equal to every tag).
Transitive(relation) ==
    \A p, q \in relation : p[2] = q[1] => <<p[1], q[2]>> \in relation

ComparatorConsistent(list) ==
    Transitive({p \in (1..Len(list)) \X (1..Len(list)) :
                    sortComparator(list[p[1]], list[p[2]]) = 0})

\* tags.sort(comparator): with an inconsistent comparator the order is
\* implementation-defined, any order of the tags.
ManualSorts(list) ==
    IF ComparatorConsistent(list) THEN {StableSort(list)}
    ELSE Orders({list[i] : i \in 1..Len(list)})

\* git tag -l <pattern>: the pattern is a glob, of which * is modelled.
RECURSIVE Glob(_, _)
Glob(pattern, name) ==
    IF Len(pattern) = 0 THEN Len(name) = 0
    ELSE IF CharAt(pattern, 1) = "*"
    THEN \/ Glob(SubSeq(pattern, 2, Len(pattern)), name)
         \/ Len(name) > 0 /\ Glob(pattern, SubSeq(name, 2, Len(name)))
    ELSE /\ Len(name) > 0
         /\ CharAt(name, 1) = CharAt(pattern, 1)
         /\ Glob(SubSeq(pattern, 2, Len(pattern)), SubSeq(name, 2, Len(name)))

Matching(pattern) == {t \in repoTags : Glob(pattern, t)}

\* What git tag -l prints for the tags in the given order.
TagListing(list) == IF Len(list) = 0 THEN "" ELSE Join(list, "\n") \o "\n"

\* Without --sort git lists the tags in refname order.
RefnameOrder(set) ==
    [position \in 1..Cardinality(set) |->
        CHOOSE t \in set : Cardinality({u \in set : StringLess(u, t)}) = position - 1]

\* With --sort=-version:refname git lists them in its own version order, which
\* is not semver's: the model allows every order.
SortedListings(pattern) ==
    LET listings(matching) == {Ok(TagListing(list)) : list \in Orders(matching)}
    IN  UNION {listings(matching) : matching \in {Matching(pattern)}}

\* return, to the caller of findPreviousReleaseTag: the call made on its own
\* is done, getDefaultFromRef goes on with the tag as its previousTag.
TagReturn(value) ==
    IF op = "ref"
    THEN foundTag' = value /\ pc' = "validate" /\ result' = result
    ELSE Return(value) /\ foundTag' = foundTag

\* The call, up to its first await: semver.parse(currentVersion).
TagCall(version, pattern) ==
    /\ op = "none"
    /\ op' = "tag"
    /\ currentVersion' = version
    /\ tagPattern' = pattern
    /\ IF ~semverParse(version).valid
       THEN Return(NotFound)
       ELSE pc' = "listSorted" /\ result' = result
    /\ UNCHANGED <<branchName, remote, originalBranch, localExists, remoteExists,
                   needToSwitch, pullError, localSha, raised, cmds, warned, repoVars,
                   tags, repoTags, refVars, statusVars>>

\* git tag -l <pattern> --sort=-version:refname, and the scan of its tags
TagListSorted ==
    /\ op \in {"tag", "ref"} /\ pc = "listSorted"
    /\ \E outcome \in SortedListings(tagPattern) \cup Failures :
        LET args == <<"tag", "-l", tagPattern, "--sort=-version:refname">>
            run == runSecure(args, outcome)
        IN  /\ cmds' = Append(cmds, Spawned(args, outcome))
            /\ IF run.ok
               THEN \E listed \in {TagsOf(run.stdout)} :
                        /\ tags' = listed
                        /\ TagReturn(PreviousTagAmong(listed, currentVersion))
               ELSE /\ pc' = "listPlain"
                    /\ UNCHANGED <<tags, result, foundTag>>
    /\ UNCHANGED <<op, callVars, raised, warned, repoVars, currentVersion, tagPattern,
                   repoTags, forceMainBranch, currentBranch, candidate, headPackage,
                   workPackage, fileReads, statusVars>>

\* The value of the catch (error) block that encloses the whole function.
TagFailureResultFound == [found |-> TRUE, tag |-> ""]

TagFailureResult == NotFound

\* catch (sortError): git tag -l <pattern>, the manual sort, and the scan
TagListPlain ==
    /\ op \in {"tag", "ref"} /\ pc = "listPlain"
    /\ \E matching \in {Matching(tagPattern)} :
       \E outcome \in {Ok(TagListing(RefnameOrder(matching)))} \cup Failures :
        LET args == <<"tag", "-l", tagPattern>>
            run == runSecure(args, outcome)
        IN  /\ cmds' = Append(cmds, Spawned(args, outcome))
            /\ IF run.ok
               THEN \E listed \in {TagsOf(run.stdout)} :
                    \E sorted \in ManualSorts(listed) :
                        /\ tags' = sorted
                        /\ TagReturn(PreviousTagAmong(sorted, currentVersion))
               ELSE /\ TagReturn(TagFailureResult)
                    /\ UNCHANGED tags
    /\ UNCHANGED <<op, callVars, raised, warned, repoVars, currentVersion, tagPattern,
                   repoTags, forceMainBranch, currentBranch, candidate, headPackage,
                   workPackage, fileReads, statusVars>>

TagSets == {set \in SUBSET TagPool : Cardinality(set) <= MaxTags}

InitTag ==
    /\ InitCall
    /\ InitBranches
    /\ InitPackage
    /\ InitStatus
    /\ repoTags \in TagSets

NextTag ==
    \/ \E version \in Versions, pattern \in Patterns : TagCall(version, pattern)
    \/ TagListSorted
    \/ TagListPlain

SpecTag == InitTag /\ [][NextTag]_vars

-----------------------------------------------------------------------------
(* git.ts: isValidGitRef, getCurrentVersion, getDefaultFromRef *)

isValidGitRefAlways(ref, outcome) == TRUE

\* isValidGitRef(ref) with the outcome of its git rev-parse --verify <ref>
isValidGitRef(ref, outcome) ==
    IF ~validateGitRef(ref) THEN FALSE ELSE runSecure(<<"rev-parse", "--verify", ref>>, outcome).ok

\* The outcome of the git rev-parse --verify <ref> that isValidGitRef awaits:
\* git exits with 128 for a ref that does not resolve, and the command may
\* fail to start for one that does.
VerifyOutcomes(resolves) ==
    IF resolves THEN {Ok("a1b2c3\n"), SpawnError}
    ELSE {Exit("128", "fatal: Needed a single revision")}

\* The outcome of git show HEAD:package.json
ShowOutcomes ==
    {Ok(headPackage), Exit("128", "fatal: path 'package.json' does not exist in 'HEAD'")}

\* fs.readFile(packageJsonPath, 'utf-8'): the text, or a rejection
ReadOk(text) == [ok |-> TRUE, content |-> text]
ReadError == [ok |-> FALSE]

\* validated.version of a package.json text; null and "" both stand as "".
\* The text is unreadable when safeJsonParse or validatePackageJson throws.
PackageReadable(text) == validatePackageJson(safeJsonParse(text)).valid
PackageVersion(text) == JsonGet(validatePackageJson(safeJsonParse(text)), "version")

\* The catch block of getCurrentVersion: the working directory's package.json
VersionFromWorkingDirectory(read) ==
    IF read.ok /\ PackageReadable(read.content) THEN PackageVersion(read.content) ELSE ""

\* getCurrentVersion(), with the outcomes of git show HEAD:package.json and of
\* the read of the working directory's file
VersionFromShow(show, read) ==
    IF show.ok /\ PackageReadable(show.stdout) THEN PackageVersion(show.stdout)
    ELSE VersionFromWorkingDirectory(read)

\* The fs.readFile calls of getCurrentVersion(): one, in the catch block.
ShowReadable(show) == show.ok /\ PackageReadable(show.stdout)
FileReadsAlways(showOutcome, readOutcome) == <<readOutcome>>

FileReadsOf(showOutcome, readOutcome) ==
    IF ShowReadable(runSecure(<<"show", "HEAD:package.json">>, showOutcome)) THEN <<>>
    ELSE <<readOutcome>>

getCurrentVersion(showOutcome, readOutcome) ==
    VersionFromShow(runSecure(<<"show", "HEAD:package.json">>, showOutcome), readOutcome)

\* const candidates
candidatesMasterFirst == <<"master", "main", "origin/main", "origin/master">>

candidates == <<"main", "master", "origin/main", "origin/master">>

\* The message of the Error thrown after the loop.
NoReferenceMessage(force) ==
    "Could not find a valid default git reference for --from parameter. "
    \o "Please specify --from explicitly or check your git repository configuration. "
    \o "Tried: " \o (IF force THEN "main branch only" ELSE "previous release tag")
    \o ", " \o Join(candidates, ", ")

\* What git rev-parse --verify resolves: a local branch, a tag, or a
\* remote-tracking ref by its short name.
Resolves(ref) ==
    \/ ref \in localBranches
    \/ ref \in repoTags
    \/ \E tracking \in trackingRefs : ref = tracking[1] \o "/" \o tracking[2]

\* The value getDefaultFromRef returns.
RefValue(ref) == [ref |-> ref]

\* The arguments the calls are made with; "" is a currentBranch not given.
CurrentBranches == {"working", "main", ""}

\* After a tag search that gave no reference: the regular tag search after the
\* working one, the branch candidates after the regular one.
NextSearchSkipsRegular == tagPattern' = tagPattern /\ pc' = "candidates"

NextSearch ==
    IF tagPattern = "working/v*"
    THEN tagPattern' = "v*" /\ pc' = "version"
    ELSE tagPattern' = tagPattern /\ pc' = "candidates"

\* The tag searches a call makes, by their patterns: none when forced to the
\* main branch, the working one first when currentBranch === 'working'.
TagSearchesAlways(force, branch) ==
    IF branch = "working" THEN <<"working/v*", "v*">> ELSE <<"v*">>

TagSearchesWorkingAlways(force, branch) ==
    IF force THEN <<>> ELSE <<"working/v*", "v*">>

TagSearches(force, branch) ==
    IF force THEN <<>>
    ELSE IF branch = "working" THEN <<"working/v*", "v*">>
    ELSE <<"v*">>

\* The call, up to its first await.
RefCall(force, branch) ==
    /\ op = "none"
    /\ op' = "ref"
    /\ forceMainBranch' = force
    /\ currentBranch' = branch
    /\ IF Len(TagSearches(force, branch)) = 0
       THEN pc' = "candidates" /\ tagPattern' = tagPattern
       ELSE pc' = "version" /\ tagPattern' = TagSearches(force, branch)[1]
    /\ UNCHANGED <<callVars, result, raised, cmds, warned, repoVars, currentVersion, tags,
                   repoTags, foundTag, candidate, headPackage, workPackage, fileReads,
                   statusVars>>

\* const currentVersion = await getCurrentVersion(), of either tag search,
\* and the entry of findPreviousReleaseTag up to its first await
RefCurrentVersion ==
    /\ op = "ref" /\ pc = "version"
    /\ \E showOutcome \in ShowOutcomes,
          readOutcome \in {ReadOk(workPackage), ReadError} :
       \E version \in {getCurrentVersion(showOutcome, readOutcome)} :
        /\ cmds' = Append(cmds, Spawned(<<"show", "HEAD:package.json">>, showOutcome))
        /\ fileReads' = fileReads \o FileReadsOf(showOutcome, readOutcome)
        /\ currentVersion' = version
        /\ IF version = "" THEN NextSearch /\ foundTag' = foundTag
           ELSE IF ~semverParse(version).valid
           THEN foundTag' = NotFound /\ pc' = "validate" /\ tagPattern' = tagPattern
           ELSE foundTag' = foundTag /\ pc' = "listSorted" /\ tagPattern' = tagPattern
    /\ UNCHANGED <<op, callVars, result, raised, warned, repoVars, tags, repoTags,
                   forceMainBranch, currentBranch, candidate, headPackage, workPackage,
                   statusVars>>

\* if (previousTag) and await isValidGitRef(previousTag), of either tag search
RefValidateTag ==
    /\ op = "ref" /\ pc = "validate"
    /\ IF foundTag.found
       THEN \E outcome \in VerifyOutcomes(Resolves(foundTag.tag)) :
                /\ cmds' = cmds \o ProbeSpawned(foundTag.tag, outcome)
                /\ IF isValidGitRef(foundTag.tag, outcome)
                   THEN Return(RefValue(foundTag.tag)) /\ tagPattern' = tagPattern
                   ELSE NextSearch /\ result' = result
       ELSE NextSearch /\ UNCHANGED <<cmds, result>>
    /\ UNCHANGED <<op, callVars, raised, warned, repoVars, currentVersion, tags, repoTags,
                   refVars, statusVars>>

\* One turn of the for loop over candidates, and the throw after the last one
RefCandidate ==
    /\ op = "ref" /\ pc = "candidates"
    /\ \E outcome \in VerifyOutcomes(Resolves(candidates[candidate])) :
        /\ cmds' = cmds \o ProbeSpawned(candidates[candidate], outcome)
        /\ IF isValidGitRef(candidates[candidate], outcome)
           THEN Return(RefValue(candidates[candidate])) /\ UNCHANGED <<candidate, raised>>
           ELSE IF candidate < Len(candidates)
           THEN candidate' = candidate + 1 /\ UNCHANGED <<pc, result, raised>>
           ELSE /\ raised' = TRUE
                /\ Return([error |-> NoReferenceMessage(forceMainBranch)])
                /\ candidate' = candidate
    /\ UNCHANGED <<op, callVars, warned, repoVars, tagVars, forceMainBranch, currentBranch,
                   foundTag, headPackage, workPackage, fileReads, statusVars>>

\* The package.json texts and the tags of the repositories the calls run in.
\* <<text in HEAD, text in the working directory>>
Packages == {<<PackageText("pkg", "1.2.0"), PackageText("pkg", "1.2.0")>>,
             <<PackageText("pkg", ""), PackageText("pkg", "1.2.0")>>,
             <<PackageText("", "1.2.0"), PackageText("pkg", "1.10.0")>>,
             <<"not json", PackageText("pkg", "latest")>>}
RefTagSets == {{}, {"v1.0.0", "v1.10.0"}, {"working/v1.0.0", "working/v1.1.0", "v1.0.0"},
               {"v1.0.0", "v1.1.0+build"}}

InitRef ==
    /\ InitCall
    /\ localBranches \in {{}, {"main"}, {"master"}}
    /\ checkedOut = ""
    /\ trackingRefs \in {{}, {<<"origin", "master">>},
                         {<<"origin", "main">>, <<"origin", "master">>}}
    /\ dirty = FALSE
    /\ shaLocal = "a1"
    /\ shaRemote = "a1"
    /\ repoTags \in RefTagSets
    /\ \E package \in Packages : headPackage = package[1] /\ workPackage = package[2]
    /\ InitStatus

NextRef ==
    \/ \E force \in BOOLEAN, branch \in CurrentBranches : RefCall(force, branch)
    \/ RefCurrentVersion
    \/ TagListSorted
    \/ TagListPlain
    \/ RefValidateTag
    \/ RefCandidate

SpecRef == InitRef /\ [][NextRef]_vars

-----------------------------------------------------------------------------
(* git.ts: getCurrentBranch, getGitStatusSummary *)

\* s[k] and s.substring(from, to) of JavaScript, positions counted from 0;
\* s[k] is undefined past the end of s.
Undefined == "undefined"
StringAt(s, k) == IF k + 1 <= Len(s) THEN SubSeq(s, k + 1, k + 1) ELSE Undefined
Substring(s, from, to) == SubSeq(s, from + 1, IF to <= Len(s) THEN to ELSE Len(s))

\* statusOutput.trim().split('\n').filter(line => line.trim())
StatusLines(statusOutput) ==
    SelectSeq(Split(Trim(statusOutput), "\n"), LAMBDA line : Trim(line) # "")

\* const statusCode = line.substring(0, 2)
StatusCode(line) == Substring(line, 0, 2)

\* The line makes the loop increment unstagedCount.
CodeCountsUnstaged(statusCode) ==
    \/ statusCode = "??"
    \/ StringAt(statusCode, 1) # " " /\ StringAt(statusCode, 1) # ""

\* The line makes the loop increment uncommittedCount.
CodeCountsUncommitted(statusCode) ==
    /\ statusCode # "??"
    /\ StringAt(statusCode, 0) # " " /\ StringAt(statusCode, 0) # ""

\* unstagedCount and uncommittedCount after the for loop over statusLines
UnstagedAmong(lines) ==
    Cardinality({i \in 1..Len(lines) : CodeCountsUnstaged(StatusCode(lines[i]))})
UncommittedAmong(lines) ==
    Cardinality({i \in 1..Len(lines) : CodeCountsUncommitted(StatusCode(lines[i]))})

\* parseInt(text) || 0, for the texts the model holds: the number its leading
\* digits write, 0 when it has none (NaN).
ParseIntOrZero(text) ==
    IF DigitRunEnd(text, 1) >= 1 THEN ToNumber(SubSeq(text, 1, DigitRunEnd(text, 1))) ELSE 0

\* `${n}` for a count
RECURSIVE NumberText(_)
NumberText(n) ==
    IF n < 10 THEN SubSeq("0123456789", n + 1, n + 1)
    ELSE NumberText(n \div 10) \o SubSeq("0123456789", (n % 10) + 1, (n % 10) + 1)

\* statusParts, and the status string built from it
Part(count, word) == IF count > 0 THEN <<NumberText(count) \o " " \o word>> ELSE <<>>

StatusPartsBare(unstaged, uncommitted, unpushed) ==
    Part(unstaged, "unstaged") \o Part(uncommitted, "uncommitted")

StatusParts(unstaged, uncommitted, unpushed) ==
    Part(unstaged, "unstaged") \o Part(uncommitted, "uncommitted") \o Part(unpushed, "unpushed")

StatusText(parts) == IF Len(parts) > 0 THEN Join(parts, ", ") ELSE "clean"

\* The object the inner try block returns.
SummaryResult(branch, unstaged, uncommitted, unpushed) ==
    [branch |-> branch,
     hasUnstagedFiles |-> unstaged > 0,
     hasUncommittedChanges |-> uncommitted > 0,
     hasUnpushedCommits |-> unpushed > 0,
     unstagedCount |-> unstaged,
     uncommittedCount |-> uncommitted,
     unpushedCount |-> unpushed,
     status |-> StatusText(StatusParts(unstaged, uncommitted, unpushed))]

\* The object the outer catch block returns.
ErrorSummaryClean ==
    [branch |-> "unknown",
     hasUnstagedFiles |-> FALSE,
     hasUncommittedChanges |-> FALSE,
     hasUnpushedCommits |-> FALSE,
     unstagedCount |-> 0,
     uncommittedCount |-> 0,
     unpushedCount |-> 0,
     status |-> "clean"]

ErrorSummary ==
    [branch |-> "unknown",
     hasUnstagedFiles |-> FALSE,
     hasUncommittedChanges |-> FALSE,
     hasUnpushedCommits |-> FALSE,
     unstagedCount |-> 0,
     uncommittedCount |-> 0,
     unpushedCount |-> 0,
     status |-> "error"]

\* The result when the unpushed commits could not be counted: the inner catch
\* leaves unpushedCount at 0.
UnpushedUnknownIsError(locals) == ErrorSummary

UnpushedUnknown(locals) ==
    SummaryResult(locals.branch, locals.unstagedCount, locals.uncommittedCount, 0)

\* The directories process.chdir can enter, and the arguments of the calls.
Directories == {"/home", "/repo", "/other"}
WorkingDirs == {"", "/repo", "/missing"}

\* return, through the finally block that goes back to originalCwd
StatusReturnStays(r) ==
    /\ Return(r)
    /\ cwd' = cwd

StatusReturn(r) ==
    /\ Return(r)
    /\ cwd' = IF workingDir # "" THEN summary.originalCwd ELSE cwd

\* What no action of getGitStatusSummary writes.
statusRest == <<callVars, raised, warned, tagVars, refVars, porcelain, ahead, concurrentVars,
                checkedOut, localBranches, dirty, shaLocal, shaRemote>>

\* The call, up to its first await: process.cwd() and process.chdir(workingDir)
StatusCall(dir) ==
    /\ op = "none"
    /\ op' = "status"
    /\ workingDir' = dir
    /\ summary' = [summary EXCEPT !.originalCwd = cwd]
    /\ IF dir # "" /\ dir \notin Directories
       THEN Return(ErrorSummary) /\ cwd' = cwd
       ELSE /\ cwd' = IF dir # "" THEN dir ELSE cwd
            /\ pc' = "branch"
            /\ result' = result
    /\ UNCHANGED <<statusRest, cmds, trackingRefs>>

\* const branch = await getCurrentBranch()
StatusBranch ==
    /\ op = "status" /\ pc = "branch"
    /\ \E outcome \in {Ok(checkedOut \o "\n")} \cup Failures :
        LET args == <<"branch", "--show-current">>
            run == runSecure(args, outcome)
        IN  /\ cmds' = Append(cmds, Spawned(args, outcome))
            /\ IF run.ok
               THEN /\ summary' = [summary EXCEPT !.branch = Trim(run.stdout)]
                    /\ pc' = "porcelain"
                    /\ UNCHANGED <<result, cwd>>
               ELSE /\ StatusReturn(ErrorSummary)
                    /\ summary' = summary
    /\ UNCHANGED <<op, workingDir, statusRest, trackingRefs>>

\* git status --porcelain, and the for loop over its lines
StatusPorcelain ==
    /\ op = "status" /\ pc = "porcelain"
    /\ \E outcome \in {Ok(porcelain)} \cup Failures :
        LET args == <<"status", "--porcelain">>
            run == runSecure(args, outcome)
        IN  /\ cmds' = Append(cmds, Spawned(args, outcome))
            /\ IF run.ok
               THEN \E statusLines \in {StatusLines(run.stdout)} :
                    /\ summary' = [summary EXCEPT
                                     !.unstagedCount = UnstagedAmong(statusLines),
                                     !.uncommittedCount = UncommittedAmong(statusLines)]
                    /\ pc' = "fetchOrigin"
                    /\ UNCHANGED <<result, cwd>>
               ELSE /\ StatusReturn(ErrorSummary)
                    /\ summary' = summary
    /\ UNCHANGED <<op, workingDir, statusRest, trackingRefs>>

\* git fetch origin --quiet
StatusFetch ==
    /\ op = "status" /\ pc = "fetchOrigin"
    /\ \E outcome \in {Ok("")} \cup Failures :
        LET args == <<"fetch", "origin", "--quiet">>
            run == runSecure(args, outcome)
        IN  /\ cmds' = Append(cmds, Spawned(args, outcome))
            /\ IF run.ok
               THEN /\ trackingRefs' \in FetchedRefs("origin", summary.branch)
                    /\ pc' = "remoteExists"
                    /\ UNCHANGED <<result, cwd>>
               ELSE /\ StatusReturn(UnpushedUnknown(summary))
                    /\ trackingRefs' = trackingRefs
    /\ UNCHANGED <<op, workingDir, summary, statusRest>>

\* const remoteExists = await remoteBranchExists(branch)
StatusRemoteExists ==
    /\ op = "status" /\ pc = "remoteExists"
    /\ \E outcome \in ProbeOutcomes(<<"origin", summary.branch>> \in trackingRefs) :
        /\ cmds' = cmds \o ProbeSpawned(RemoteRef("origin", summary.branch), outcome)
        /\ IF isValidGitRefSilent(RemoteRef("origin", summary.branch), outcome)
           THEN pc' = "ahead" /\ UNCHANGED <<result, cwd>>
           ELSE StatusReturn(UnpushedUnknown(summary))
    /\ UNCHANGED <<op, workingDir, summary, statusRest, trackingRefs>>

\* git rev-list --count origin/<branch>..HEAD, and the return
StatusAhead ==
    /\ op = "status" /\ pc = "ahead"
    /\ \E outcome \in {Ok(ahead)} \cup Failures :
        LET args == <<"rev-list", "--count", "origin/" \o summary.branch \o "..HEAD">>
            run == runSecure(args, outcome)
        IN  /\ cmds' = Append(cmds, Spawned(args, outcome))
            /\ IF run.ok
               THEN StatusReturn(SummaryResult(summary.branch, summary.unstagedCount,
                                               summary.uncommittedCount,
                                               ParseIntOrZero(Trim(run.stdout))))
               ELSE StatusReturn(UnpushedUnknown(summary))
    /\ UNCHANGED <<op, workingDir, summary, statusRest, trackingRefs>>

\* The lines git status --porcelain may print, and its outputs of at most
\* MaxLines lines.
PorcelainLines == {" M a.txt", "M  b.txt", "MM c.txt", "?? d.txt", " D e.txt"}
MaxLines == 2
PorcelainOutputs ==
    {""} \cup UNION {{Join(lines, "\n") \o "\n" : lines \in [1..n -> PorcelainLines]} :
                        n \in 1..MaxLines}
AheadOutputs == {"0\n", "3\n", "12\n", ""}

InitSummary ==
    /\ InitCall
    /\ localBranches = {"main"}
    /\ checkedOut \in {"main", ""}
    /\ trackingRefs \in {{}, {<<"origin", "main">>}}
    /\ dirty = FALSE
    /\ shaLocal = "a1"
    /\ shaRemote = "a1"
    /\ repoTags = {}
    /\ InitPackage
    /\ porcelain \in PorcelainOutputs
    /\ ahead \in AheadOutputs

NextSummary ==
    \/ \E dir \in WorkingDirs : StatusCall(dir)
    \/ StatusBranch
    \/ StatusPorcelain
    \/ StatusFetch
    \/ StatusRemoteExists
    \/ StatusAhead

SpecSummary == InitSummary /\ [][NextSummary]_vars

-----------------------------------------------------------------------------
(* git.ts: two getGitStatusSummary calls in one process *)

\* A call runs without suspension from one await to the next; runSecure spawns
\* its command, in the process working directory of that moment, before the
\* caller suspends.
ConcurrentDirs == {"/repo", "/other"}

\* The directory the finally block leaves the process in.
FinallyDirectoryStays(call, current) == current

FinallyDirectory(call, current) ==
    IF call.workingDir # "" THEN call.originalCwd ELSE current

\* runSecure('git', args) called by a call while the process is in dir
SpawnedIn(call, args, dir) ==
    [call EXCEPT !.ran = Append(@, [cmd |-> CommandLine(args), dir |-> dir])]

\* The call goes on to its next await.
SummariesAwait(i, args, next) ==
    /\ summaries' = [summaries EXCEPT ![i] = [SpawnedIn(@, args, cwd) EXCEPT !.pc = next]]
    /\ cwd' = cwd

\* The call returns through its finally block.
SummariesReturn(i, outcome) ==
    /\ summaries' = [summaries EXCEPT ![i].pc = "done", ![i].returned = outcome]
    /\ cwd' = FinallyDirectory(summaries[i], cwd)

summariesRest == <<op, pc, result, cmds, workingDir, summary, syncs, callVars, raised, warned,
                   tagVars, refVars, porcelain, ahead, repoVars>>

\* The call, up to its first await: process.cwd(), process.chdir(workingDir)
\* and the spawn of git branch --show-current
SummariesCall(i, dir) ==
    /\ summaries[i].pc = "idle"
    /\ summaries' = [summaries EXCEPT ![i] =
           [pc |-> "branch", workingDir |-> dir, originalCwd |-> cwd,
            overlapped |-> \E j \in Calls \ {i} : summaries[j].pc \notin {"idle", "done"},
            ran |-> <<[cmd |-> CommandLine(<<"branch", "--show-current">>), dir |-> dir]>>,
            returned |-> ""]]
    /\ cwd' = dir
    /\ UNCHANGED summariesRest

\* git branch --show-current settles; git status --porcelain is spawned
SummariesBranch(i) ==
    /\ summaries[i].pc = "branch"
    /\ \E ok \in BOOLEAN :
        IF ok THEN SummariesAwait(i, <<"status", "--porcelain">>, "porcelain")
        ELSE SummariesReturn(i, "error")
    /\ UNCHANGED summariesRest

\* git status --porcelain settles; git fetch origin --quiet is spawned
SummariesPorcelain(i) ==
    /\ summaries[i].pc = "porcelain"
    /\ \E ok \in BOOLEAN :
        IF ok THEN SummariesAwait(i, <<"fetch", "origin", "--quiet">>, "fetchOrigin")
        ELSE SummariesReturn(i, "error")
    /\ UNCHANGED summariesRest

\* git fetch settles; remoteBranchExists(branch) spawns its probe
SummariesFetch(i) ==
    /\ summaries[i].pc = "fetchOrigin"
    /\ \E ok \in BOOLEAN :
        IF ok THEN SummariesAwait(i, <<"rev-parse", "--verify", RemoteRef("origin", checkedOut)>>,
                                  "remoteExists")
        ELSE SummariesReturn(i, "summary")
    /\ UNCHANGED summariesRest

\* The probe settles; git rev-list --count is spawned
SummariesRemoteExists(i) ==
    /\ summaries[i].pc = "remoteExists"
    /\ \E ok \in BOOLEAN :
        IF ok THEN SummariesAwait(i, <<"rev-list", "--count", "origin/" \o checkedOut \o "..HEAD">>,
                                  "ahead")
        ELSE SummariesReturn(i, "summary")
    /\ UNCHANGED summariesRest

\* git rev-list settles, and the call returns
SummariesAhead(i) ==
    /\ summaries[i].pc = "ahead"
    /\ SummariesReturn(i, "summary")
    /\ UNCHANGED summariesRest

InitSummaries ==
    /\ InitCall
    /\ localBranches = {"main"}
    /\ checkedOut = "main"
    /\ trackingRefs = {<<"origin", "main">>}
    /\ dirty = FALSE
    /\ shaLocal = "a1"
    /\ shaRemote = "a1"
    /\ repoTags = {}
    /\ InitPackage
    /\ InitStatus

NextSummaries ==
    \/ \E i \in Calls, dir \in ConcurrentDirs : SummariesCall(i, dir)
    \/ \E i \in Calls : SummariesBranch(i)
    \/ \E i \in Calls : SummariesPorcelain(i)
    \/ \E i \in Calls : SummariesFetch(i)
    \/ \E i \in Calls : SummariesRemoteExists(i)
    \/ \E i \in Calls : SummariesAhead(i)

SpecSummaries == InitSummaries /\ [][NextSummaries]_vars

-----------------------------------------------------------------------------
(* git.ts: two safeSyncBranchWithRemote calls on one repository *)

\* A call runs without suspension from one await to the next. A git command
\* is spawned when runSecure is called and acts on the repository when it
\* settles; each call keeps, in ran, the commands it awaited with the branch
\* checked out when each was spawned (from) and when it settled (to).
SyncTargets == {"feature", "main"}

Settled(call, args, ok) ==
    [call EXCEPT !.ran = Append(@, [cmd |-> CommandLine(args), ok |-> ok,
                                    from |-> call.spawnedOn, to |-> checkedOut])]

\* The call returns.
Returned(call, success) == [call EXCEPT !.pc = "done", !.success = success]

\* The commands that check a branch out succeed only for a local branch.
CheckoutOutcomes(b) == IF b \in localBranches THEN BOOLEAN ELSE {FALSE}

\* The catch (pullError) block and the return after the pull restore the
\* original branch when the call switched and originalBranch is not empty.
RestoresNever(call) == FALSE

Restores(call) == call.needToSwitch /\ call.originalBranch # ""

syncsRest == <<op, pc, result, cmds, workingDir, cwd, summary, porcelain, ahead, summaries, raised, warned, tagVars, refVars,
               callVars, trackingRefs, dirty, shaLocal, shaRemote>>

\* The call, up to its first await: the validation of both arguments and the
\* spawn of git branch --show-current
SyncsCall(i, target) ==
    /\ syncs[i].pc = "idle"
    /\ syncs' = [syncs EXCEPT ![i] =
           IF ~validateGitRef(target) \/ ~isValidGitRemoteName("origin")
           THEN Returned(@, FALSE)
           ELSE [@ EXCEPT !.pc = "showCurrent", !.branchName = target,
                          !.overlapped = \E j \in Calls \ {i} :
                                             syncs[j].pc \notin {"idle", "done"},
                          !.spawnedOn = checkedOut]]
    /\ UNCHANGED <<syncsRest, checkedOut, localBranches>>

\* git branch --show-current settles; git fetch is spawned
SyncsShowCurrent(i) ==
    /\ syncs[i].pc = "showCurrent"
    /\ \E ok \in BOOLEAN :
        syncs' = [syncs EXCEPT ![i] =
            IF ok
            THEN [Settled(@, <<"branch", "--show-current">>, TRUE) EXCEPT
                     !.pc = "fetch", !.originalBranch = Trim(checkedOut \o "\n"),
                     !.spawnedOn = checkedOut]
            ELSE Returned(Settled(@, <<"branch", "--show-current">>, FALSE), FALSE)]
    /\ UNCHANGED <<syncsRest, checkedOut, localBranches>>

\* git fetch settles; localBranchExists spawns its probe
SyncsFetch(i) ==
    /\ syncs[i].pc = "fetch"
    /\ \E ok \in BOOLEAN :
        syncs' = [syncs EXCEPT ![i] =
            IF ok
            THEN [Settled(@, <<"fetch", "origin", "--quiet">>, TRUE) EXCEPT
                     !.pc = "probeLocal", !.spawnedOn = checkedOut]
            ELSE Returned(Settled(@, <<"fetch", "origin", "--quiet">>, FALSE), FALSE)]
    /\ UNCHANGED <<syncsRest, checkedOut, localBranches>>

\* The probe of the local branch settles; remoteBranchExists spawns its probe
SyncsProbeLocal(i) ==
    /\ syncs[i].pc = "probeLocal"
    /\ LET args == <<"rev-parse", "--verify", LocalRef(syncs[i].branchName)>>
           found == syncs[i].branchName \in localBranches
       IN  syncs' = [syncs EXCEPT ![i] =
               [Settled(@, args, found) EXCEPT
                   !.pc = "probeRemote", !.localExists = found, !.spawnedOn = checkedOut]]
    /\ UNCHANGED <<syncsRest, checkedOut, localBranches>>

\* The probe of the remote branch settles; the call returns, or spawns
\* git branch, git status or git checkout, or git pull
SyncsProbeRemote(i) ==
    /\ syncs[i].pc = "probeRemote"
    /\ LET args == <<"rev-parse", "--verify", RemoteRef("origin", syncs[i].branchName)>>
           found == <<"origin", syncs[i].branchName>> \in trackingRefs
           switch == NeedToSwitch(syncs[i].originalBranch, syncs[i].branchName)
       IN  syncs' = [syncs EXCEPT ![i] =
               IF ~found THEN Returned(Settled(@, args, FALSE), FALSE)
               ELSE [Settled(@, args, TRUE) EXCEPT
                        !.pc = IF ~syncs[i].localExists THEN "create"
                               ELSE IF switch THEN "status" ELSE "pull",
                        !.needToSwitch = syncs[i].localExists /\ switch,
                        !.spawnedOn = checkedOut]]
    /\ UNCHANGED <<syncsRest, checkedOut, localBranches>>

\* git branch <branch> <remote>/<branch> settles, and the call returns
SyncsCreateLocal(i) ==
    /\ syncs[i].pc = "create"
    /\ LET args == CreateBranchArgs(syncs[i].branchName, "origin")
       IN  \E ok \in (IF syncs[i].branchName \in localBranches THEN {FALSE} ELSE BOOLEAN) :
           /\ syncs' = [syncs EXCEPT ![i] = Returned(Settled(@, args, ok), ok)]
           /\ localBranches' = IF ok THEN localBranches \cup {syncs[i].branchName}
                               ELSE localBranches
    /\ UNCHANGED <<syncsRest, checkedOut>>

\* git status --porcelain settles; the call returns or spawns git checkout
SyncsStatus(i) ==
    /\ syncs[i].pc = "status"
    /\ \E ok \in BOOLEAN :
        syncs' = [syncs EXCEPT ![i] =
            IF ok /\ ~HasUncommittedChanges(StatusOutput(dirty))
            THEN [Settled(@, <<"status", "--porcelain">>, TRUE) EXCEPT
                     !.pc = "checkout", !.spawnedOn = checkedOut]
            ELSE Returned(Settled(@, <<"status", "--porcelain">>, ok), FALSE)]
    /\ UNCHANGED <<syncsRest, checkedOut, localBranches>>

\* git checkout <branch> settles; git pull is spawned
SyncsCheckout(i) ==
    /\ syncs[i].pc = "checkout"
    /\ \E ok \in CheckoutOutcomes(syncs[i].branchName) :
        /\ checkedOut' = IF ok THEN syncs[i].branchName ELSE checkedOut
        /\ syncs' = [syncs EXCEPT ![i] =
               IF ok
               THEN [Settled(@, <<"checkout", syncs[i].branchName>>, TRUE) EXCEPT
                        !.pc = "pull", !.spawnedOn = checkedOut']
               ELSE Returned(Settled(@, <<"checkout", syncs[i].branchName>>, FALSE), FALSE)]
    /\ UNCHANGED <<syncsRest, localBranches>>

\* git pull settles; the call returns or spawns git checkout <originalBranch>,
\* from the try block after a success and from the catch block after a failure
SyncsPull(i) ==
    /\ syncs[i].pc = "pull"
    /\ LET args == <<"pull", "origin", syncs[i].branchName, "--ff-only">>
       IN  \E ok \in BOOLEAN :
           syncs' = [syncs EXCEPT ![i] =
               IF Restores(syncs[i])
               THEN [Settled(@, args, ok) EXCEPT
                        !.pc = IF ok THEN "checkoutBack" ELSE "restore",
                        !.spawnedOn = checkedOut]
               ELSE Returned(Settled(@, args, ok), ok)]
    /\ UNCHANGED <<syncsRest, checkedOut, localBranches>>

\* git checkout <originalBranch> of the try block settles; the call returns,
\* or its rejection reaches the catch block, which spawns the command again
SyncsCheckoutBack(i) ==
    /\ syncs[i].pc = "checkoutBack"
    /\ \E ok \in CheckoutOutcomes(syncs[i].originalBranch) :
        /\ checkedOut' = IF ok THEN syncs[i].originalBranch ELSE checkedOut
        /\ syncs' = [syncs EXCEPT ![i] =
               IF ok
               THEN Returned(Settled(@, <<"checkout", syncs[i].originalBranch>>, TRUE), TRUE)
               ELSE [Settled(@, <<"checkout", syncs[i].originalBranch>>, FALSE) EXCEPT
                        !.pc = "restore", !.spawnedOn = checkedOut]]
    /\ UNCHANGED <<syncsRest, localBranches>>

\* git checkout <originalBranch> of the catch block settles, and the call
\* returns a failure
SyncsRestore(i) ==
    /\ syncs[i].pc = "restore"
    /\ \E ok \in CheckoutOutcomes(syncs[i].originalBranch) :
        /\ checkedOut' = IF ok THEN syncs[i].originalBranch ELSE checkedOut
        /\ syncs' = [syncs EXCEPT ![i] =
               Returned(Settled(@, <<"checkout", syncs[i].originalBranch>>, ok), FALSE)]
    /\ UNCHANGED <<syncsRest, localBranches>>

InitSyncs ==
    /\ InitCall
    /\ localBranches \in {{"main", "feature"}, {"main"}}
    /\ checkedOut = "main"
    /\ trackingRefs \in {{<<"origin", "main">>, <<"origin", "feature">>}, {<<"origin", "main">>}}
    /\ dirty \in BOOLEAN
    /\ shaLocal = "a1"
    /\ shaRemote = "a1"
    /\ repoTags = {}
    /\ InitPackage
    /\ InitStatus

NextSyncs ==
    \/ \E i \in Calls, target \in SyncTargets : SyncsCall(i, target)
    \/ \E i \in Calls : SyncsShowCurrent(i)
    \/ \E i \in Calls : SyncsFetch(i)
    \/ \E i \in Calls : SyncsProbeLocal(i)
    \/ \E i \in Calls : SyncsProbeRemote(i)
    \/ \E i \in Calls : SyncsCreateLocal(i)
    \/ \E i \in Calls : SyncsStatus(i)
    \/ \E i \in Calls : SyncsCheckout(i)
    \/ \E i \in Calls : SyncsPull(i)
    \/ \E i \in Calls : SyncsCheckoutBack(i)
    \/ \E i \in Calls : SyncsRestore(i)

SpecSyncs == InitSyncs /\ [][NextSyncs]_vars

-----------------------------------------------------------------------------
(* Properties of findPreviousReleaseTag *)

TagDone == op = "tag" /\ pc = "done"

Listed == {tags[i] : i \in 1..Len(tags)}

\* The listed tags whose extracted version parses and is less than currentVersion.
Candidates ==
    {t \in Listed : tagSemver(t).valid /\ semverLt(tagSemver(t), semverParse(currentVersion))}

\* C1: the call returns a listed tag, unmodified, whose extracted version is
\* less than currentVersion and not less than that of any other such listed
\* tag; it returns null exactly when currentVersion does not parse, no tag is
\* listed, or no listed tag has a parseable version less than currentVersion.
C1_HighestPreviousTag ==
    TagDone =>
        /\ ~raised
        /\ Listed \subseteq Matching(tagPattern)
        /\ result.found <=> (semverParse(currentVersion).valid /\ Candidates # {})
        /\ result.found =>
            /\ result.tag \in Candidates
            /\ \A t \in Candidates : ~semverLt(tagSemver(result.tag), tagSemver(t))

C1_Witness ==
    /\ TagDone
    /\ result.found
    /\ StartsWith(result.tag, "working/v")
    /\ \E t \in Candidates : semverLt(tagSemver(t), tagSemver(result.tag))
    /\ \E t \in Listed : tagSemver(t).valid /\ t \notin Candidates
    /\ tags[1] # result.tag

-----------------------------------------------------------------------------
(* Properties of getDefaultFromRef *)

RefDone == op = "ref" /\ pc = "done"

FallbackOrder == <<"main", "master", "origin/main", "origin/master">>

VerifyCommand(ref) == "git rev-parse --verify " \o ref

\* The probes of the branch candidates among the spawned commands, in order.
ChainProbes == SelectSeq(cmds, LAMBDA c : \E k \in 1..4 : c.cmd = VerifyCommand(FallbackOrder[k]))

\* C10: once the branch fallback chain is reached, the candidates are probed
\* in the order main, master, origin/main, origin/master, none after one has
\* resolved; the call returns the candidate whose probe resolved, and raises
\* exactly when all four probes failed, with a message listing the four.
C10_FallbackChainInOrder ==
    op = "ref" =>
        /\ Len(ChainProbes) <= 4
        /\ \A k \in 1..Len(ChainProbes) :
            /\ ChainProbes[k].cmd = VerifyCommand(FallbackOrder[k])
            /\ k < Len(ChainProbes) => ~ChainProbes[k].ok
        /\ (pc = "done" /\ Len(ChainProbes) > 0) =>
            IF ChainProbes[Len(ChainProbes)].ok
            THEN ~raised /\ result = RefValue(FallbackOrder[Len(ChainProbes)])
            ELSE /\ raised
                 /\ Len(ChainProbes) = 4
                 /\ Includes(result.error, "main, master, origin/main, origin/master")
        /\ raised => pc = "done" /\ Len(ChainProbes) = 4
        /\ (pc = "done" /\ Len(ChainProbes) = 0) => ~raised /\ result.ref \in repoTags

C10_Witness ==
    /\ RefDone
    /\ ~forceMainBranch
    /\ currentBranch = "working"
    /\ Len(ChainProbes) = 3
    /\ result = RefValue("origin/main")
    /\ localBranches = {}
    /\ Resolves("origin/master")

\* C11: a call with forceMainBranch=true reads no package.json (no git show,
\* no file read) and lists no tags, whatever currentBranch is; every command
\* it spawns is the probe of a branch candidate, and the value it returns is
\* the first of main, master, origin/main, origin/master whose probe resolved.
C11_ForcedSkipsLookup ==
    (op = "ref" /\ forceMainBranch) =>
        /\ fileReads = <<>>
        /\ \A i \in 1..Len(cmds) :
            /\ ~StartsWith(cmds[i].cmd, "git show")
            /\ ~StartsWith(cmds[i].cmd, "git tag")
            /\ i <= 4 /\ cmds[i].cmd = VerifyCommand(FallbackOrder[i])
        /\ (pc = "done" /\ ~raised) =>
            /\ Len(cmds) > 0
            /\ result = RefValue(FallbackOrder[Len(cmds)])
            /\ \A i \in 1..Len(cmds) : cmds[i].ok <=> i = Len(cmds)

C11_Witness ==
    /\ RefDone
    /\ forceMainBranch
    /\ currentBranch = "working"
    /\ repoTags # {}
    /\ result = RefValue("master")

WorkingListing(c) == StartsWith(c.cmd, "git tag -l working/v*")
RegularListing(c) == StartsWith(c.cmd, "git tag -l v*")
\* The probe of a working tag that resolved.
WorkingTagResolved(c) == StartsWith(c.cmd, VerifyCommand("working/v")) /\ c.ok
WorkingTagOf(c) == SubSeq(c.cmd, Len(VerifyCommand("")) + 1, Len(c.cmd))

\* C12: a working/v* listing is issued only when forceMainBranch is false and
\* currentBranch is 'working'; once the probe of the tag found by it has
\* resolved, the call is over and has returned that tag, no v* listing was
\* issued and no branch candidate was probed.
C12_WorkingTagFirst ==
    op = "ref" =>
        \A i \in 1..Len(cmds) :
            /\ WorkingListing(cmds[i]) => (~forceMainBranch /\ currentBranch = "working")
            /\ WorkingTagResolved(cmds[i]) =>
                /\ i = Len(cmds)
                /\ pc = "done" /\ ~raised
                /\ result = RefValue(WorkingTagOf(cmds[i]))
                /\ result.ref \in repoTags
                /\ \A j \in 1..Len(cmds) : ~RegularListing(cmds[j])
                /\ Len(ChainProbes) = 0

C12_Witness ==
    /\ RefDone
    /\ result = RefValue("working/v1.1.0")
    /\ "v1.0.0" \in repoTags
    /\ "main" \in localBranches
    /\ \E i \in 1..Len(cmds) : WorkingListing(cmds[i]) /\ ~cmds[i].ok

ShowCount == Cardinality({i \in 1..Len(cmds) : cmds[i].cmd = "git show HEAD:package.json"})

\* C13: on the working branch a call that did not return a working tag never
\* raised before the branch fallback chain was exhausted: it entered the
\* regular lookup (a second read of the version, and a v* listing when that
\* version parses), and it returned a v* tag or went on to probe the branch
\* candidates.
C13_WorkingFallsThrough ==
    (RefDone /\ ~forceMainBranch /\ currentBranch = "working") =>
        \/ /\ ~raised
           /\ WorkingTagResolved(cmds[Len(cmds)])
        \/ /\ ShowCount = 2
           /\ semverParse(currentVersion).valid =>
                \E i \in 1..Len(cmds) : RegularListing(cmds[i])
           /\ \/ /\ ~raised
                 /\ Len(ChainProbes) = 0
                 /\ StartsWith(result.ref, "v")
                 /\ cmds[Len(cmds)].cmd = VerifyCommand(result.ref)
              \/ /\ Len(ChainProbes) > 0
                 /\ raised => Len(ChainProbes) = 4

C13_Witness ==
    /\ RefDone /\ ~forceMainBranch /\ currentBranch = "working"
    /\ \E i \in 1..Len(cmds) :
        /\ StartsWith(cmds[i].cmd, VerifyCommand("working/v"))
        /\ ~cmds[i].ok
    /\ raised

-----------------------------------------------------------------------------
(* Properties of getGitStatusSummary *)

SummaryDone == op = "status" /\ pc = "done"

BranchCommand == "git branch --show-current"
PorcelainCommand == "git status --porcelain"
FetchOriginCommand == "git fetch origin --quiet"
OriginProbeCommand(b) == "git rev-parse --verify refs/remotes/origin/" \o b
AheadCommand(b) == "git rev-list --count origin/" \o b \o "..HEAD"

\* The branch name and the lines that git printed.
BranchRead == Trim(OutputOf(BranchCommand))
PrintedLines == NonEmpty(Split(OutputOf(PorcelainCommand), "\n"))

\* What a printed line adds to each count, from its two status characters.
AddsUnstaged(line) == SubSeq(line, 1, 2) = "??" \/ SubSeq(line, 2, 2) # " "
AddsUncommitted(line) == SubSeq(line, 1, 2) # "??" /\ SubSeq(line, 1, 1) # " "

\* C17: the reported unstagedCount and uncommittedCount are the sums, over
\* all the lines of the porcelain output whatever their position, of what
\* each line adds: '??' adds 1 to unstagedCount only, any other line adds 1 to
\* unstagedCount iff its second status character is not blank and 1 to
\* uncommittedCount iff its first status character is not blank.
C17_CountsEveryLine ==
    (SummaryDone /\ Succeeded(PorcelainCommand)) =>
        /\ result.unstagedCount =
              Cardinality({i \in 1..Len(PrintedLines) : AddsUnstaged(PrintedLines[i])})
        /\ result.uncommittedCount =
              Cardinality({i \in 1..Len(PrintedLines) : AddsUncommitted(PrintedLines[i])})

\* The texts of the three counters of a result that are not zero, in order.
CounterText(count, word) ==
    IF count # 0 THEN <<NumberText(count) \o " " \o word>> ELSE <<>>
CounterTexts(r) ==
    CounterText(r.unstagedCount, "unstaged")
        \o CounterText(r.uncommittedCount, "uncommitted")
        \o CounterText(r.unpushedCount, "unpushed")

\* C18: on every result other than the error result, status is 'clean' iff
\* the three counts are zero, and otherwise is the ', '-joined list of
\* 'N unstaged', 'N uncommitted', 'N unpushed' for the non-zero counts, in
\* that order.
C18_StatusText ==
    (SummaryDone /\ result.status # "error") =>
        /\ result.status = "clean" <=>
              (result.unstagedCount = 0 /\ result.uncommittedCount = 0
                  /\ result.unpushedCount = 0)
        /\ result.status # "clean" => result.status = Join(CounterTexts(result), ", ")

C18_Witness ==
    /\ SummaryDone
    /\ result.status = "1 unstaged, 1 uncommitted, 12 unpushed"

\* The working directory of the call could not be entered.
EnterFailed == workingDir # "" /\ workingDir \notin Directories

\* C19: getGitStatusSummary never raises, and when entering workingDir,
\* reading the branch or reading the porcelain status fails it returns
\* branch 'unknown', the three counts 0, the three flags false and status
\* 'error'.
C19_SummaryNeverRaises ==
    op = "status" =>
        /\ ~raised
        /\ (EnterFailed \/ Failed(BranchCommand) \/ Failed(PorcelainCommand)) =>
            /\ pc = "done"
            /\ result.branch = "unknown"
            /\ result.unstagedCount = 0
            /\ result.uncommittedCount = 0
            /\ result.unpushedCount = 0
            /\ ~result.hasUnstagedFiles
            /\ ~result.hasUncommittedChanges
            /\ ~result.hasUnpushedCommits
            /\ result.status = "error"

C19_Witness ==
    /\ SummaryDone
    /\ workingDir = "/repo"
    /\ Succeeded(BranchCommand)
    /\ Failed(PorcelainCommand)

\* The unpushed commits could not be counted.
UnpushedFailed ==
    \/ Failed(FetchOriginCommand)
    \/ Succeeded(FetchOriginCommand) /\ ~Succeeded(OriginProbeCommand(BranchRead))
    \/ Failed(AheadCommand(BranchRead))

\* C20: when the fetch fails, the remote branch is absent or the commit count
\* fails, the result is not the error result: it carries the branch and the
\* two counts computed from the branch and status reads, unpushedCount 0 and
\* hasUnpushedCommits false.
C20_UnpushedFailureTolerated ==
    (SummaryDone /\ Succeeded(PorcelainCommand) /\ UnpushedFailed) =>
        /\ result.status # "error"
        /\ result.branch = BranchRead
        /\ result.unstagedCount = UnstagedAmong(StatusLines(OutputOf(PorcelainCommand)))
        /\ result.uncommittedCount = UncommittedAmong(StatusLines(OutputOf(PorcelainCommand)))
        /\ result.hasUnstagedFiles = (result.unstagedCount > 0)
        /\ result.hasUncommittedChanges = (result.uncommittedCount > 0)
        /\ result.unpushedCount = 0
        /\ ~result.hasUnpushedCommits

C20_Witness ==
    /\ SummaryDone
    /\ Failed(AheadCommand(BranchRead))
    /\ result.branch = "main"
    /\ result.uncommittedCount = 2

\* The process working directory before any call.
CallDirectory == "/home"

\* C21: when a call of getGitStatusSummary(workingDir) returns, the process
\* working directory is the one in effect when it was called, whether the
\* call succeeded, a git command failed or workingDir could not be entered.
C21_DirectoryRestored ==
    SummaryDone => cwd = CallDirectory

C21_Witness ==
    /\ SummaryDone
    /\ workingDir = "/repo"
    /\ cwd = CallDirectory
    /\ Failed(BranchCommand)

\* Concurrent calls of getGitStatusSummary
SummariesDone == \A i \in Calls : summaries[i].pc = "done"
SummariesOverlapped == \E i \in Calls : summaries[i].overlapped

\* A git command of call i ran outside the directory the call was given.
RanElsewhere(i) ==
    \E k \in 1..Len(summaries[i].ran) : summaries[i].ran[k].dir # summaries[i].workingDir

\* A git command of call i ran in the directory given to the other call.
RanInOtherDirectory(i) ==
    \E j \in Calls \ {i} : \E k \in 1..Len(summaries[i].ran) :
        /\ summaries[j].workingDir # summaries[i].workingDir
        /\ summaries[i].ran[k].dir = summaries[j].workingDir

\* C22: two getGitStatusSummary calls that both pass workingDir interfere
\* only when they overlap: calls made one after the other run every command
\* in their own directory and leave the process where it was, while
\* overlapping calls can run a command of one in the directory of the other
\* and leave the process in another directory after both have returned.
C22_SerialCallsAreSafe ==
    /\ (\E i \in Calls : RanElsewhere(i)) => SummariesOverlapped
    /\ (SummariesDone /\ cwd # CallDirectory) => SummariesOverlapped

C22_Witness ==
    /\ SummariesDone
    /\ RanInOtherDirectory(1)
    /\ cwd # CallDirectory

\* Concurrent calls of safeSyncBranchWithRemote
SyncsDone == \A i \in Calls : syncs[i].pc = "done"
SyncsOverlapped == \E i \in Calls : syncs[i].overlapped
InitialBranch == "main"

\* The git pull of call i was spawned or settled while another branch than
\* its target was checked out.
PulledOffTarget(i) ==
    \E k \in 1..Len(syncs[i].ran) :
        /\ StartsWith(syncs[i].ran[k].cmd, "git pull ")
        /\ syncs[i].ran[k].from # syncs[i].branchName \/ syncs[i].ran[k].to # syncs[i].branchName

\* A checkout command of some call failed.
SomeCheckoutFailed ==
    \E i \in Calls : \E k \in 1..Len(syncs[i].ran) :
        StartsWith(syncs[i].ran[k].cmd, "git checkout ") /\ ~syncs[i].ran[k].ok

\* C23: nothing serializes two safeSyncBranchWithRemote calls on one
\* repository. Calls made one after the other pull only on their target
\* branch and, when their checkouts succeed, leave the branch that was
\* checked out; overlapping calls can pull while another branch than the
\* target is checked out and can leave another branch checked out after both
\* have returned.
C23_SerialSyncsAreSafe ==
    /\ (\E i \in Calls : PulledOffTarget(i)) => SyncsOverlapped
    /\ (SyncsDone /\ checkedOut # InitialBranch /\ ~SomeCheckoutFailed) => SyncsOverlapped

C23_Witness ==
    /\ SyncsDone
    /\ \E i \in Calls : PulledOffTarget(i)
    /\ checkedOut # InitialBranch
    /\ ~SomeCheckoutFailed

\* Properties of findPreviousReleaseTag: failures
SortedListCommand == "git tag -l " \o tagPattern \o " --sort=-version:refname"
PlainListCommand == "git tag -l " \o tagPattern
TimesIssued(command) == Cardinality({i \in 1..Len(cmds) : cmds[i].cmd = command})

\* C24: findPreviousReleaseTag never raises; when the sorted listing fails it
\* issues exactly one unsorted listing with the same pattern and no other
\* command, and when that listing fails too it returns null.
C24_TagNeverRaises ==
    op = "tag" =>
        /\ ~raised
        /\ Len(cmds) = TimesIssued(SortedListCommand) + TimesIssued(PlainListCommand)
        /\ TimesIssued(SortedListCommand) <= 1
        /\ TimesIssued(PlainListCommand) = IF Failed(SortedListCommand) /\ pc = "done" THEN 1 ELSE 0
        /\ Failed(SortedListCommand) => pc \in {"listPlain", "done"}
        /\ Failed(PlainListCommand) => pc = "done" /\ result = NotFound

C24_Witness ==
    /\ TagDone
    /\ Failed(SortedListCommand)
    /\ Failed(PlainListCommand)
    /\ \E t \in Matching(tagPattern) : tagSemver(t).valid /\ semverLt(tagSemver(t), semverParse(currentVersion))

\* Properties of getCurrentVersion, as getDefaultFromRef calls it
ShowCommand == "git show HEAD:package.json"
Shows == {i \in 1..Len(cmds) : cmds[i].cmd = ShowCommand}
LastShow == cmds[CHOOSE i \in Shows : \A j \in Shows : j <= i]
LastRead == fileReads[Len(fileReads)]

\* HEAD's package.json was read, parsed and passed the schema check.
HeadUsable(show) == show.ok /\ PackageReadable(show.stdout)

\* C25: getCurrentVersion never raises; it reads the working directory's
\* package.json if and only if the read, the parse or the schema check of
\* HEAD:package.json failed; when HEAD's file passes, the value is its
\* version, or null when it has none; otherwise the value is the version of
\* the working directory's file, and null when that file cannot be read,
\* parsed or checked either.
C25_HeadFirstThenWorkingDirectory ==
    (op = "ref" /\ Shows # {}) =>
        /\ pc = "done" \/ ~raised
        /\ Len(fileReads) = Cardinality({i \in Shows : ~HeadUsable(cmds[i])})
        /\ HeadUsable(LastShow) => currentVersion = PackageVersion(LastShow.stdout)
        /\ ~HeadUsable(LastShow) =>
            currentVersion = IF LastRead.ok /\ PackageReadable(LastRead.content)
                             THEN PackageVersion(LastRead.content)
                             ELSE ""

C25_Witness ==
    /\ op = "ref"
    /\ Shows # {}
    /\ LastShow.ok
    /\ ~HeadUsable(LastShow)
    /\ Len(fileReads) = 1
    /\ currentVersion = "1.10.0"

\* Properties of safeSyncBranchWithRemote: the checked-out branch
ShowCurrentCommand == "git branch --show-current"

\* What was checked out when the call started, as git branch --show-current
\* reported it: "" is a detached HEAD.
StartedOn == Trim(OutputOf(ShowCurrentCommand))

\* Every git checkout the call issued succeeded.
CheckoutsSucceeded ==
    \A i \in 1..Len(cmds) : StartsWith(cmds[i].cmd, "git checkout ") => cmds[i].ok

\* C26: when every checkout command of a safeSyncBranchWithRemote call
\* succeeds, the call returns with the branch checked out that was checked
\* out when it started, on every path and also when it started on a detached
\* HEAD.
C26_CheckedOutBranchKept ==
    (SyncDone /\ Succeeded(ShowCurrentCommand) /\ CheckoutsSucceeded) => checkedOut = StartedOn

\* The commands of safeSyncBranchWithRemote that change the repository's
\* branches or working tree.
CreateCommand == "git branch " \o branchName \o " " \o remote \o "/" \o branchName
StateChanging(command) ==
    \/ command = CreateCommand
    \/ StartsWith(command, "git checkout ")
    \/ StartsWith(command, "git pull ")

\* The command was spawned, and succeeded, before the i-th command.
SucceededBefore(command, i) ==
    \E j \in 1..(i - 1) : cmds[j].cmd = command /\ cmds[j].ok

\* C27: a branch creation, checkout or pull is issued only after the fetch
\* succeeded and the probe found the remote branch; when the fetch fails or
\* the remote branch is absent the call returns success=false and has issued
\* none of them, whether the local branch exists or not.
C27_ChangesOnlyAfterRemoteFound ==
    op = "sync" =>
        /\ \A i \in 1..Len(cmds) : StateChanging(cmds[i].cmd) =>
              /\ SucceededBefore(FetchCommand, i)
              /\ SucceededBefore(RemoteProbeCommand, i)
        /\ (Failed(FetchCommand) \/ Failed(RemoteProbeCommand)) =>
              /\ pc = "done"
              /\ ~raised
              /\ result.success = FALSE
              /\ \A i \in 1..Len(cmds) : ~StateChanging(cmds[i].cmd)

C27_Witness ==
    /\ SyncDone
    /\ Succeeded(FetchCommand)
    /\ Succeeded(LocalProbeCommand)
    /\ Failed(RemoteProbeCommand)
    /\ branchName # checkedOut

\* C28: git pull is issued only while the target branch is checked out:
\* either the branch recorded at the start is the target, and then the call
\* issues no status and no checkout command, or the command just before the
\* pull is the checkout of the target and it succeeded; when that checkout
\* fails the call issues no pull and returns success=false.
C28_PullsOnTargetBranch ==
    op = "sync" =>
        /\ pc = "pull" => checkedOut = branchName
        /\ \A i \in 1..Len(cmds) : cmds[i].cmd = PullCommand =>
              \/ /\ originalBranch = branchName
                 /\ ~Issued("status")
                 /\ ~Issued("checkout")
              \/ /\ i > 1
                 /\ cmds[i - 1].cmd = CheckoutCommand(branchName)
                 /\ cmds[i - 1].ok
        /\ Failed(CheckoutCommand(branchName)) =>
              /\ pc = "done"
              /\ ~raised
              /\ ~Issued("pull")
              /\ result.success = FALSE

C28_Witness ==
    /\ SyncDone
    /\ originalBranch # branchName
    /\ Switched
    /\ PullSucceeded
    /\ result.success = TRUE
    /\ checkedOut = originalBranch

\* Properties of findPreviousReleaseTag: the order of the tags
\* No two tags of the set have parseable versions that compare equal.
DistinctVersions(set) ==
    \A a, b \in set :
        (a # b /\ tagSemver(a).valid /\ tagSemver(b).valid)
            => semverCompare(tagSemver(a), tagSemver(b)) # 0

\* The tags of the set with a parseable version less than the given one, and
\* the one of them with the highest version.
Previous(set, version) ==
    {t \in set : tagSemver(t).valid /\ semverLt(tagSemver(t), semverParse(version))}
HighestOf(previous) ==
    IF previous = {} THEN NotFound
    ELSE Found(CHOOSE t \in previous :
                   \A u \in previous : ~semverLt(tagSemver(t), tagSemver(u)))

\* C29: when no two tags matching the pattern have parseable versions that
\* compare equal, the value returned is the same for every order in which
\* the tags can be processed: it is determined by the set of tags and
\* currentVersion, so that the sorted listing and the unsorted listing with
\* the manual sort give the same tag, also when some tags have no parseable
\* version.
C29_OrderIndependent ==
    ( /\ TagDone
      /\ semverParse(currentVersion).valid
      /\ Succeeded(SortedListCommand) \/ Succeeded(PlainListCommand)
      /\ DistinctVersions(Matching(tagPattern)) )
    => /\ Listed = Matching(tagPattern)
       /\ result = HighestOf(Previous(Matching(tagPattern), currentVersion))
       /\ \A order \in Orders(Matching(tagPattern)) :
              PreviousTagAmong(order, currentVersion) = result

C29_Witness ==
    /\ TagDone
    /\ Succeeded(PlainListCommand)
    /\ DistinctVersions(Matching(tagPattern))
    /\ \E t \in Listed : ~tagSemver(t).valid
    /\ Cardinality(Previous(Listed, currentVersion)) = 2
    /\ result.found
    /\ tags[1] # result.tag

\* Properties of getDefaultFromRef: the returned reference
\* The tag the tag resolver found did not pass isValidGitRef.
FoundTagRejected ==
    /\ foundTag.found
    /\ pc # "validate"
    /\ ~validateGitRef(foundTag.tag) \/ Failed(VerifyCommand(foundTag.tag))

\* C30: a reference returned by getDefaultFromRef passed validateGitRef and
\* the git rev-parse --verify of the same call, which is the last command of
\* the call; a tag found by the tag resolver that fails either check is not
\* returned, and the call goes on with its next search or with the branch
\* candidates.
C30_ReturnedReferenceVerified ==
    op = "ref" =>
        /\ (pc = "done" /\ ~raised) =>
              /\ validateGitRef(result.ref)
              /\ Len(cmds) > 0
              /\ cmds[Len(cmds)].cmd = VerifyCommand(result.ref)
              /\ cmds[Len(cmds)].ok
        /\ FoundTagRejected =>
              /\ result # RefValue(foundTag.tag)
              /\ pc \in {"version", "listSorted", "listPlain", "candidates", "done"}
              /\ pc = "done" => Len(ChainProbes) > 0

C30_Witness ==
    /\ RefDone
    /\ ~raised
    /\ foundTag.found
    /\ ~validateGitRef(foundTag.tag)
    /\ Len(ChainProbes) = 2

=============================================================================
